---- MODULE Spec2Model ----
(***************************************************************************)
(* A model of ppr (byteowlz/ppr): the template binder (pkg/svg), the       *)
(* template cycling function (cmd/cycle.go), the palette store             *)
(* (pkg/theme) and the three orchestrating commands generate,              *)
(* switch-current and cycle, the tools convert-template and               *)
(* extract-colors, and the rasterizer's sizes (pkg/image).                 *)
(*                                                                         *)
(* Text is modelled as a sequence of tokens.  The tokens are the pieces    *)
(* the binder can tell apart: the opening "{{", the closing "}}", a key    *)
(* name such as "base0A", the literal "<svg" and colour literals.  A       *)
(* placeholder {{base0A}} is the three tokens "{{", "base0A", "}}".        *)
(***************************************************************************)
EXTENDS Integers, Sequences, FiniteSets, TLC

VARIABLES
    bTemplate,   \* binder: content of the template file, or NoFile
    bTheme,      \* binder: the theme handed to ProcessTemplate
    bResult,     \* binder: what ProcessTemplate returned, or NotRun
    cTemplates,  \* cycling function: the template list
    cCurrent,    \* cycling function: the current template
    cFirst,      \* cycling function: getNextTemplate(templates, c), once computed
    cOrbit,      \* cycling function: the successors visited since cFirst
    cfg,         \* session state (config.toml)
    files,       \* output files on disk: path -> content
    last,        \* what the last command invocation did
    clock,       \* time.Now(), to the second
    themeFiles,  \* palette store: the .yaml files under themes/base16, themes/base24
    themes,      \* palette store: ThemeManager.themes after LoadThemes
    conv,        \* convert-template: the document, the theme and the template written
    extr,        \* extract-colors: the document, the theme name and the outcome
    img,         \* SVGToPNG: the sizes of the template and of the target, and the scaled size
    dims         \* SVGToPNG: the document, and the size that was read from it

vars == <<bTemplate, bTheme, bResult, cTemplates, cCurrent, cFirst, cOrbit,
          cfg, files, last, clock, themeFiles, themes, conv, extr, img, dims>>

bindVars  == <<bTemplate, bTheme, bResult>>
cycleVars == <<cTemplates, cCurrent, cFirst, cOrbit>>
cmdVars   == <<cfg, files, last, clock>>
storeVars == <<themeFiles, themes>>
toolVars  == <<conv, extr, img, dims>>

(* Sequences and text *)

Range(s) == {s[i] : i \in DOMAIN s}

\* All sequences over S of length 0..n
SeqsUpTo(S, n) == UNION {[1..k -> S] : k \in 0..n}

\* All orderings of the finite set S, as sequences
Orderings(S) ==
    {s \in [1..Cardinality(S) -> S] : \A i, j \in DOMAIN s : i # j => s[i] # s[j]}

RECURSIVE Flatten(_)
Flatten(ss) == IF ss = <<>> THEN <<>> ELSE Head(ss) \o Flatten(Tail(ss))

\* does pat occur in text at position i
MatchAt(text, pat, i) ==
    /\ i + Len(pat) - 1 <= Len(text)
    /\ \A j \in 1..Len(pat) : text[i + j - 1] = pat[j]

\* strings.Contains
Contains(text, pat) == \E i \in 1..Len(text) : MatchAt(text, pat, i)

\* strings.ReplaceAll: non-overlapping occurrences, left to right
RECURSIVE ReplaceFrom(_, _, _, _)
ReplaceFrom(text, pat, rep, i) ==
    IF i > Len(text) THEN <<>>
    ELSE IF MatchAt(text, pat, i)
         THEN rep \o ReplaceFrom(text, pat, rep, i + Len(pat))
         ELSE <<text[i]>> \o ReplaceFrom(text, pat, rep, i + 1)

ReplaceAll(text, pat, rep) ==
    IF Contains(text, pat) THEN ReplaceFrom(text, pat, rep, 1) ELSE text

(* Placeholder keys *)

HexUpper == {"0", "1", "2", "3", "4", "5", "6", "7", "8", "9",
             "A", "B", "C", "D", "E", "F"}

\* the tokens the class base[0-9A-F]{2} matches
UpperKeys == {"base" \o a \o b : a \in HexUpper, b \in HexUpper}

\* validateTheme: requiredColors for base16
Required16 == {"base0" \o b : b \in HexUpper}

\* validateTheme: base%02X for i in 16..23
Required24 == Required16 \cup {"base1" \o b : b \in {"0", "1", "2", "3", "4", "5", "6", "7"}}

RequiredColors(system) == IF system = "base24" THEN Required24 ELSE Required16

\* fmt.Sprintf("{{%s}}", colorKey)
Placeholder(key) == <<"{{", key, "}}">>


(* Template binder: pkg/svg *)

\* the content of a file that cannot be read
NoFile == <<"no such file">>

\* the value of bResult before ProcessTemplate has run
NotRun == [err |-> "not run", text |-> <<>>, matches |-> <<>>]

\* the value of cFirst before getNextTemplate has run
NoNext == [dir |-> <<>>, stem |-> "", ext |-> "not computed"]

\* the order of the keys in the canonical listing of a theme
KeyOrder ==
    <<"base00", "base01", "base02", "base03", "base04", "base05", "base06", "base07",
      "base08", "base09", "base0A", "base0B", "base0C", "base0D", "base0E", "base0F",
      "base10", "base11", "base12", "base13", "base14", "base15", "base16", "base17">>

\* Keys whose placeholder occurs in no template and in no palette value of the
\* bounded inputs: replacing them changes nothing, so their place in the
\* iteration order is immaterial and they are visited last, in KeyOrder.
QuietKeys == Range(KeyOrder) \ {"base00", "base01", "base10"}

\* The orders in which `for colorKey, colorValue := range theme.Palette` can
\* visit the keys: Go leaves the iteration order of a map unspecified.
RangeOrders(palette) ==
    LET loud  == DOMAIN palette \ QuietKeys
        quiet == SelectSeq(KeyOrder, LAMBDA k : k \in DOMAIN palette /\ k \in QuietKeys)
    IN  {o \o quiet : o \in Orderings(loud)}

\* the loop of ProcessTemplate: one ReplaceAll per key, in the order visited
RECURSIVE Substitute(_, _, _)
Substitute(svgContent, palette, order) ==
    IF order = <<>> THEN svgContent
    ELSE Substitute(ReplaceAll(svgContent, Placeholder(Head(order)), palette[Head(order)]),
                    palette, Tail(order))

\* placeholderPattern.FindAllString(content, -1): the keys of the tokens that
\* match \{\{base[0-9A-F]{2}\}\}, in order of occurrence
RECURSIVE FindPlaceholders(_, _)
FindPlaceholders(content, i) ==
    IF i > Len(content) THEN <<>>
    ELSE IF i + 2 <= Len(content) /\ content[i] = "{{"
            /\ content[i + 1] \in UpperKeys /\ content[i + 2] = "}}"
         THEN <<content[i + 1]>> \o FindPlaceholders(content, i + 3)
         ELSE FindPlaceholders(content, i + 1)

\* a validation that forgets the scan for remaining placeholders
ValidateOnlySvgTag(content) ==
    IF ~Contains(content, <<"<svg">>)
    THEN [err |-> "MalformedTemplate", matches |-> <<>>]
    ELSE [err |-> "none", matches |-> <<>>]

validateProcessedSVG(content) ==
    LET matches == FindPlaceholders(content, 1)
    IN  IF Len(matches) > 0
        THEN [err |-> "UnresolvedPlaceholder", matches |-> matches]
        ELSE IF ~Contains(content, <<"<svg">>)
             THEN [err |-> "MalformedTemplate", matches |-> <<>>]
             ELSE [err |-> "none", matches |-> <<>>]

\* ProcessTemplate on the content of the template file (NoFile: os.ReadFile fails)
ProcessTemplate(content, theme, order) ==
    IF content = NoFile
    THEN [err |-> "ReadError", text |-> <<>>, matches |-> <<>>]
    ELSE LET svgContent == Substitute(content, theme.Palette, order)
             v          == validateProcessedSVG(svgContent)
         IN  IF v.err # "none"
             THEN [err |-> v.err, text |-> <<>>, matches |-> v.matches]
             ELSE [err |-> "none", text |-> svgContent, matches |-> <<>>]

(* Inputs of the binder *)

\* the most pieces a template is made of
MaxPieces == 3

\* the keys the templates mention: required keys, a key written with a
\* lower-case digit, a base24 key and a key no system requires
TemplateKeys == {"base00", "base01", "base0a", "base10", "base1F"}

Pieces == {<<"<svg">>} \cup {Placeholder(k) : k \in TemplateKeys}

BindTemplates == {Flatten(ps) : ps \in SeqsUpTo(Pieces, MaxPieces)} \cup {NoFile}

\* a colour literal for the key k, one token
ColourOf(k) == <<"#" \o k>>

\* validateTheme checks the keys of a palette, not its values: a value can be any text
Values00 == {ColourOf("base00"), Placeholder("base01")}
Values01 == {ColourOf("base01"), Placeholder("base00")}

\* palettes that pass validateTheme: every required key, with or without an extra key
PaletteOf(system, extra, v00, v01) ==
    [k \in RequiredColors(system) \cup extra |->
        IF k = "base00" THEN v00 ELSE IF k = "base01" THEN v01 ELSE ColourOf(k)]

BindThemes ==
    {[System |-> s, Name |-> "nord", Palette |-> PaletteOf(s, e, v00, v01)] :
        s \in {"base16", "base24"}, e \in {{}, {"base10"}}, v00 \in Values00, v01 \in Values01}

BindInit ==
    /\ bTemplate \in BindTemplates
    /\ bTheme \in BindThemes
    /\ bResult = NotRun

BindIdle ==
    /\ bTemplate = NoFile
    /\ bTheme = [System |-> "", Name |-> "", Palette |-> <<>>]
    /\ bResult = NotRun

\* one call of ProcessTemplate
Bind ==
    /\ bResult = NotRun
    /\ \E order \in RangeOrders(bTheme.Palette) :
          bResult' = ProcessTemplate(bTemplate, bTheme, order)
    /\ UNCHANGED <<bTemplate, bTheme>>

(* Claims about the binder *)

HexLower == {"a", "b", "c", "d", "e", "f"}

HexAny == HexUpper \cup HexLower

\* strings.ToUpper on one hex digit
UpperDigit(d) ==
    CASE d = "a" -> "A" [] d = "b" -> "B" [] d = "c" -> "C"
      [] d = "d" -> "D" [] d = "e" -> "E" [] d = "f" -> "F" [] OTHER -> d

\* the keys baseXX with XX two hex digits of either case, each with its upper-case form
AnyCaseKeys == {"base" \o a \o b : a \in HexAny, b \in HexAny}

UpperPairs ==
    {<<"base" \o a \o b, "base" \o UpperDigit(a) \o UpperDigit(b)>> : a \in HexAny, b \in HexAny}

\* strings.ToUpper on the digits of a key
KeyUpper(k) == (CHOOSE p \in UpperPairs : p[1] = k)[2]

\* the keys of the tokens {{baseXX}} of a text, XX in either case
TokensAnyCase(text) ==
    {text[i + 1] : i \in {j \in 1..(Len(text) - 2) :
        text[j] = "{{" /\ text[j + 1] \in AnyCaseKeys /\ text[j + 2] = "}}"}}

\* the keys of the tokens {{baseXX}} of a text, XX in upper case
TokensUpper(text) == Range(FindPlaceholders(text, 1))

BindSucceeded == bResult # NotRun /\ bResult.err = "none"

Offending == {k \in TokensUpper(bTemplate) : k \notin RequiredColors(bTheme.System)}

\* C14 as stated: when the template has a placeholder {{baseXX}} whose key is
\* not a required key of the palette's system, bind fails with
\* UnresolvedPlaceholder, returns no text, and the error lists those keys.
C14_AsStated ==
    (bResult # NotRun /\ bTemplate # NoFile /\ Offending # {}) =>
        /\ bResult.err = "UnresolvedPlaceholder"
        /\ bResult.text = <<>>
        /\ Offending \subseteq Range(bResult.matches)

\* the text in which every placeholder token of the template whose key the
\* palette has is replaced by its value, and no inserted text is looked at again
RECURSIVE SinglePass(_, _, _)
SinglePass(content, palette, i) ==
    IF i > Len(content) THEN <<>>
    ELSE IF i + 2 <= Len(content) /\ content[i] = "{{"
            /\ content[i + 1] \in DOMAIN palette /\ content[i + 2] = "}}"
         THEN palette[content[i + 1]] \o SinglePass(content, palette, i + 3)
         ELSE <<content[i]>> \o SinglePass(content, palette, i + 1)

\* the result of bind on a text that was substituted in a single pass
BoundOnce ==
    LET svgContent == SinglePass(bTemplate, bTheme.Palette, 1)
        v          == validateProcessedSVG(svgContent)
    IN  IF v.err # "none"
        THEN [err |-> v.err, text |-> <<>>, matches |-> v.matches]
        ELSE [err |-> "none", text |-> svgContent, matches |-> <<>>]

\* C21 as stated: binding is single-pass.  Text inserted for one placeholder
\* is never substituted itself, so the result of bind is the result on the
\* single-pass text, whatever the order in which the palette entries are visited.
C21_AsStated ==
    (bResult # NotRun /\ bTemplate # NoFile) => bResult = BoundOnce

\* the placeholders of the template whose key is an entry of the palette that
\* the palette's system does not require
ExtraMentioned ==
    {k \in TokensUpper(bTemplate) :
        k \in DOMAIN bTheme.Palette /\ k \notin RequiredColors(bTheme.System)}

\* C22 as stated: a placeholder of the template whose key is an entry of the
\* palette but not a required key of the palette's system is not substituted
\* by bind: its token is still in the text, which the leftover scan reports.
C22_AsStated ==
    (bResult # NotRun /\ bTemplate # NoFile /\ ExtraMentioned # {}) =>
        /\ bResult.err # "none"
        /\ ExtraMentioned \subseteq Range(bResult.matches)

(* Template cycling: cmd/cycle.go *)

\* A file path is a record: the directories leading to the file, the stem of
\* its base name and the extension of its base name without the dot ("" when
\* the name has none).  The empty string is the path with no directory, no
\* stem and no extension.
Path(dir, stem, ext) == [dir |-> dir, stem |-> stem, ext |-> ext]

EmptyPath == Path(<<>>, "", "")

\* filepath.Base: the last element of the path, "." for the empty path
Base(path) == IF path = EmptyPath THEN Path(<<>>, ".", "") ELSE Path(<<>>, path.stem, path.ext)

\* filepath.Ext
Ext(path) == path.ext

\* filepath.Join(dir, path), for a relative path
Join(dir, path) == Path(dir \o path.dir, path.stem, path.ext)

\* getNextTemplate that compares the entries with == only
NextTemplateExactOnly(templates, currentTemplate) ==
    IF Len(templates) = 0 THEN EmptyPath
    ELSE IF Len(templates) = 1 THEN templates[1]
    ELSE LET hits == {i \in 1..Len(templates) : templates[i] = currentTemplate}
         IN  IF hits = {} THEN templates[1]
             ELSE LET currentIndex == CHOOSE i \in hits : \A j \in hits : i <= j
                  IN  IF currentIndex = Len(templates) THEN templates[1]
                      ELSE templates[currentIndex + 1]

\* getNextTemplate that does not wrap around after the last entry
NextTemplateNoWrap(templates, currentTemplate) ==
    IF Len(templates) = 0 THEN EmptyPath
    ELSE IF Len(templates) = 1 THEN templates[1]
    ELSE LET hits == {i \in 1..Len(templates) :
                         \/ templates[i] = currentTemplate
                         \/ Base(templates[i]) = currentTemplate}
         IN  IF hits = {} THEN templates[1]
             ELSE LET currentIndex == CHOOSE i \in hits : \A j \in hits : i <= j
                  IN  IF currentIndex = Len(templates) THEN templates[currentIndex]
                      ELSE templates[currentIndex + 1]

\* getNextTemplate.  The loop breaks at the first entry that equals the
\* current template or whose base name does: currentIndex is the least hit,
\* -1 (here: no hit) when the loop ends without one.
getNextTemplate(templates, currentTemplate) ==
    IF Len(templates) = 0 THEN EmptyPath
    ELSE IF Len(templates) = 1 THEN templates[1]
    ELSE LET hits == {i \in 1..Len(templates) :
                         \/ templates[i] = currentTemplate
                         \/ Base(templates[i]) = currentTemplate}
         IN  IF hits = {} THEN templates[1]
             ELSE LET currentIndex == CHOOSE i \in hits : \A j \in hits : i <= j
                  IN  IF currentIndex = Len(templates) THEN templates[1]
                      ELSE templates[currentIndex + 1]

\* the longest template list
MaxTemplates == 3

\* template names: plain names and names in subdirectories, two with one base name
TemplateNames ==
    {Path(<<>>, "shapes", ""), Path(<<>>, "bars", ""),
     Path(<<"dark">>, "shapes", ""), Path(<<"light">>, "shapes", "")}

CurrentNames == TemplateNames \cup {EmptyPath, Path(<<>>, "waves", "")}

CycleInit ==
    /\ cTemplates \in SeqsUpTo(TemplateNames, MaxTemplates) \ {<<>>}
    /\ cCurrent \in CurrentNames
    /\ cFirst = NoNext
    /\ cOrbit = <<>>

CycleIdle ==
    /\ cTemplates = <<>>
    /\ cCurrent = EmptyPath
    /\ cFirst = NoNext
    /\ cOrbit = <<>>

\* next(c)
CycleFirst ==
    /\ cFirst = NoNext
    /\ cFirst' = getNextTemplate(cTemplates, cCurrent)
    /\ UNCHANGED <<cTemplates, cCurrent, cOrbit>>

\* next applied once more, at most N times after next(c)
CycleAgain ==
    /\ cFirst # NoNext
    /\ Len(cOrbit) < Len(cTemplates)
    /\ cOrbit' = Append(cOrbit,
           getNextTemplate(cTemplates, IF cOrbit = <<>> THEN cFirst ELSE cOrbit[Len(cOrbit)]))
    /\ UNCHANGED <<cTemplates, cCurrent, cFirst>>

(* Claims about the cycling function *)

\* the positions of the list that match c: equal to c, or with base name c
MatchesOf(templates, c) ==
    {i \in 1..Len(templates) : templates[i] = c \/ Base(templates[i]) = c}

\* C2: the successor of c in a list of size N is the entry at (index + 1) mod N,
\* index the (first) position matching c, counted from 0; the first entry when
\* nothing matches.
C2_SuccessorIsNextModN ==
    cFirst # NoNext =>
        LET N == Len(cTemplates)
            m == MatchesOf(cTemplates, cCurrent)
        IN  IF m = {} THEN cFirst = cTemplates[1]
            ELSE \E i \in m :
                    /\ \A j \in m : i <= j
                    /\ cFirst = cTemplates[(((i - 1) + 1) % N) + 1]

\* the successor was taken at a basename match in the middle and at the wrap-around
C2_Witness ==
    /\ cFirst # NoNext
    /\ Len(cTemplates) = 3
    /\ cCurrent = Path(<<>>, "shapes", "")
    /\ cTemplates[3] = Path(<<"dark">>, "shapes", "")
    /\ MatchesOf(cTemplates, cCurrent) = {3}
    /\ cFirst = cTemplates[1]

\* C3 as stated: for every non-empty list of size N, applying next N times to
\* next(c) gives next(c) again.
C3_AsStated ==
    (cFirst # NoNext /\ Len(cOrbit) = Len(cTemplates))
    => cOrbit[Len(cOrbit)] = cFirst

\* every entry is found at its own position: the entries are pairwise
\* distinct and none equals the base name of an earlier entry
SelfLocating(templates) ==
    \A i \in 1..Len(templates) : \A j \in 1..(i - 1) :
        templates[j] # templates[i] /\ Base(templates[j]) # templates[i]

\* C3, amended: for a list of N pairwise distinct entries none of which equals
\* the base name of an earlier entry, applying next N times to next(c) gives
\* next(c) again, and not before: the orbit has length N.
C3_OrbitIsCycle ==
    (cFirst # NoNext /\ SelfLocating(cTemplates))
    => /\ Len(cOrbit) = Len(cTemplates) => cOrbit[Len(cOrbit)] = cFirst
       /\ \A k \in 1..Len(cOrbit) : k < Len(cTemplates) => cOrbit[k] # cFirst

\* an orbit of three steps over three entries, one of them in a subdirectory
C3_Witness ==
    /\ cFirst # NoNext
    /\ SelfLocating(cTemplates)
    /\ Len(cTemplates) = 3
    /\ Len(cOrbit) = 3
    /\ \E i \in 1..3 : cTemplates[i].dir # <<>>

(* Palette store: pkg/theme *)

\* type Theme
Theme(system, name, author, variant, palette) ==
    [System |-> system, Name |-> name, Author |-> author, Variant |-> variant,
     Palette |-> palette]

\* validateTheme that checks the number of colours but not which ones
ValidateCountOnly(theme) ==
    IF theme.System = "" THEN "missing system"
    ELSE IF theme.System # "base16" /\ theme.System # "base24" THEN "unsupported system"
    ELSE LET expectedColors == IF theme.System = "base24" THEN 24 ELSE 16
         IN  IF Cardinality(DOMAIN theme.Palette) < expectedColors THEN "too few colors"
             ELSE "ok"

validateTheme(theme) ==
    IF theme.System = "" THEN "missing system"
    ELSE IF theme.System # "base16" /\ theme.System # "base24" THEN "unsupported system"
    ELSE LET expectedColors == IF theme.System = "base24" THEN 24 ELSE 16
         IN  IF Cardinality(DOMAIN theme.Palette) < expectedColors THEN "too few colors"
             ELSE IF \E color \in RequiredColors(theme.System) : color \notin DOMAIN theme.Palette
                  THEN "missing required color"
                  ELSE "ok"

\* A file of the themes directory: the subdirectory it is in, its name without
\* extension, its extension, whether yaml.Unmarshal accepts it, and the Theme
\* it unmarshals to.
ThemeFile(dir, name, ext, parses, doc) ==
    [dir |-> dir, name |-> name, ext |-> ext, parses |-> parses, doc |-> doc]

\* loadTheme: "ok" when the file unmarshals and validates
loadTheme(file) == IF ~file.parses THEN "yaml error" ELSE validateTheme(file.doc)

\* ThemeManager.themes with no theme
NoThemes == [n \in {} |-> Theme("", "", "", "", <<>>)]

\* a loadThemesFromDir that gives up at the first file that does not load
LoadDirStopAtFailure(index, disk, dir) ==
    IF dir \notin disk.dirs THEN [err |-> "none", index |-> index]
    ELSE IF dir \in disk.denied THEN [err |-> "read dir", index |-> index]
    ELSE IF \E f \in disk.files : f.dir = dir /\ f.ext = "yaml" /\ loadTheme(f) # "ok"
    THEN [err |-> "load theme", index |-> index]
    ELSE LET loaded == {f \in disk.files : f.dir = dir /\ f.ext = "yaml"}
             names  == {f.name : f \in loaded}
         IN  [err   |-> "none",
              index |-> [n \in DOMAIN index \cup names |->
                 IF n \in names THEN (CHOOSE f \in loaded : f.name = n).doc ELSE index[n]]]

\* loadThemesFromDir: a missing directory is no error, another failure of
\* os.ReadDir is; every .yaml file that loads is indexed under its name
\* without the extension, the others are skipped with a warning.  The names of
\* the files of one directory differ, so the order of the directory listing
\* does not matter.
loadThemesFromDir(index, disk, dir) ==
    IF dir \notin disk.dirs THEN [err |-> "none", index |-> index]
    ELSE IF dir \in disk.denied THEN [err |-> "read dir", index |-> index]
    ELSE LET loaded == {f \in disk.files :
                            f.dir = dir /\ f.ext = "yaml" /\ loadTheme(f) = "ok"}
             names  == {f.name : f \in loaded}
         IN  [err   |-> "none",
              index |-> [n \in DOMAIN index \cup names |->
                 IF n \in names THEN (CHOOSE f \in loaded : f.name = n).doc ELSE index[n]]]

\* LoadThemes on a new ThemeManager: base16, then base24 when os.Stat finds it
LoadThemes(disk) ==
    LET after16 == loadThemesFromDir(NoThemes, disk, "base16")
    IN  IF after16.err # "none" THEN after16
        ELSE IF "base24" \in disk.dirs
             THEN loadThemesFromDir(after16.index, disk, "base24")
             ELSE after16

(* Inputs of the palette store *)

\* the most files in the themes directory
MaxThemeFiles == 3

FullPalette(keys) == [k \in keys |-> ColourOf(k)]

\* a value written character by character: a colour in lower case, as the
\* scheme files of the base16 projects write it, and a value that is no hex colour
LowerCaseValue == <<"#", "2", "e", "3", "4", "4", "0">>
ColourName == <<"r", "e", "d">>

\* a base16 palette whose base00 has the value v00 and whose base01 has the value v01
SpeltPalette(v00, v01) ==
    [k \in Required16 |->
        IF k = "base00" THEN v00 ELSE IF k = "base01" THEN v01 ELSE ColourOf(k)]

\* what a theme file can hold: valid themes, themes with extra keys,
\* themes that miss the system, a count or a required key, and themes with a
\* value that is not written as # and six upper-case hex digits
ThemeDocs ==
    {Theme("base16", "Nord", "a", "dark", FullPalette(Required16)),
     Theme("base24", "Nord", "a", "dark", FullPalette(Required24)),
     Theme("base16", "Nord", "a", "dark", FullPalette(Required24)),
     Theme("base24", "Nord", "a", "dark", FullPalette(Required16)),
     Theme("base16", "Nord", "a", "dark", FullPalette(Required16 \ {"base0F"})),
     Theme("base16", "Nord", "a", "dark", FullPalette((Required16 \ {"base0F"}) \cup {"base10"})),
     Theme("base24", "Nord", "a", "dark", FullPalette((Required24 \ {"base17"}) \cup {"base18"})),
     Theme("", "Nord", "a", "dark", FullPalette(Required16)),
     Theme("base32", "Nord", "a", "dark", FullPalette(Required24)),
     Theme("base16", "Nord", "a", "dark", SpeltPalette(LowerCaseValue, ColourName))}

ThemeFileContents ==
    {[ext |-> "yaml", parses |-> TRUE, doc |-> d] : d \in ThemeDocs}
    \cup {[ext |-> "yaml", parses |-> FALSE, doc |-> Theme("", "", "", "", <<>>)],
          [ext |-> "txt", parses |-> TRUE,
           doc |-> Theme("base16", "Nord", "a", "dark", FullPalette(Required16))]}

ThemeFileSlots == {"base16", "base24"} \X {"nord", "base16-nord"}

\* the themes directories of at most `most` files, no two with one path;
\* a directory that is there may be one that os.ReadDir cannot read
ThemeDisks(most) ==
    {[dirs |-> ds \cup {f.dir : f \in fs}, denied |-> dn \cap (ds \cup {f.dir : f \in fs}),
      files |-> fs] :
        ds \in SUBSET {"base16", "base24"},
        dn \in {{}, {"base16"}, {"base24"}},
        fs \in UNION {
            {{ThemeFile(sl[1], sl[2], c[sl].ext, c[sl].parses, c[sl].doc) : sl \in slots} :
                c \in [slots -> ThemeFileContents]} :
            slots \in {x \in SUBSET ThemeFileSlots : Cardinality(x) <= most}}}

\* no theme
NoTheme == Theme("", "", "", "", <<>>)

\* no lookup yet
NoGet == [asked |-> FALSE, name |-> "", found |-> FALSE, key |-> ""]

\* a ThemeManager on which nothing has been called
NewThemeManager ==
    [loaded |-> FALSE, err |-> "none", index |-> NoThemes, got |-> NoGet, saved |-> NoTheme]

StoreInit ==
    /\ themeFiles \in ThemeDisks(MaxThemeFiles)
    /\ themes = NewThemeManager

\* theme.NewThemeManager(path).LoadThemes()
Load ==
    /\ ~themes.loaded
    /\ themes' = [themes EXCEPT !.loaded = TRUE, !.err = LoadThemes(themeFiles).err,
                                !.index = LoadThemes(themeFiles).index]
    /\ UNCHANGED themeFiles

StoreIdle ==
    /\ themeFiles = [dirs |-> {}, denied |-> {}, files |-> {}]
    /\ themes = NewThemeManager

(* Claims about the palette store *)

\* C10: every palette in the index after load has system base16 or base24 and
\* every required key of its system; no file that misses a required key of
\* its system is indexed.
C10_IndexedAreComplete ==
    themes.loaded =>
        /\ \A n \in DOMAIN themes.index :
              /\ themes.index[n].System \in {"base16", "base24"}
              /\ RequiredColors(themes.index[n].System) \subseteq DOMAIN themes.index[n].Palette
        /\ \A f \in themeFiles.files :
              (\E k \in RequiredColors(f.doc.System) : k \notin DOMAIN f.doc.Palette)
              => (f.name \notin DOMAIN themes.index \/ themes.index[f.name] # f.doc)

\* a load that indexed a base24 palette and skipped a file that has sixteen
\* colours but not base0F
C10_Witness ==
    /\ themes.loaded
    /\ \E n \in DOMAIN themes.index : themes.index[n].System = "base24"
    /\ \E f \in themeFiles.files :
          /\ f.ext = "yaml" /\ f.parses /\ f.doc.System = "base16"
          /\ Cardinality(DOMAIN f.doc.Palette) = 16
          /\ "base0F" \notin DOMAIN f.doc.Palette
          /\ f.name \notin DOMAIN themes.index

\* the .yaml files of the themes directories that load, and those that do not
ValidFiles == {f \in themeFiles.files : f.ext = "yaml" /\ loadTheme(f) = "ok"}
FailingFiles == {f \in themeFiles.files : f.ext = "yaml" /\ loadTheme(f) # "ok"}

\* the file is the one indexed under its name
Indexed(f) == f.name \in DOMAIN themes.index /\ themes.index[f.name] = f.doc

\* Is the value '#' followed by exactly six upper-case hex digits?  The colour
\* literals ColourOf(k) of the model stand for colours written that way.
Canonical(value) ==
    \/ \E k \in UpperKeys : value = ColourOf(k)
    \/ /\ Len(value) = 7
       /\ value[1] = "#"
       /\ \A i \in 2..7 : value[i] \in HexUpper

\* the upper-case form of a value that is '#' and six hex digits of either
\* case, and the value itself when it has no such form
Normalized(value) ==
    IF Len(value) = 7 /\ value[1] = "#" /\ \A i \in 2..7 : value[i] \in HexAny
    THEN [i \in 1..7 |-> UpperDigit(value[i])]
    ELSE value

\* the .yaml files of a readable directory with a value that has no canonical form
Unnormalizable ==
    {f \in themeFiles.files :
        /\ f.ext = "yaml" /\ f.parses /\ f.dir \notin themeFiles.denied
        /\ \E k \in DOMAIN f.doc.Palette : ~Canonical(Normalized(f.doc.Palette[k]))}

\* C23 as stated: after load every colour value of every palette in the
\* index is '#' followed by six upper-case hex digits, and no file with a
\* value that cannot be normalized to that form is indexed.
C23_AsStated ==
    (themes.loaded /\ themes.err = "none") =>
        /\ \A n \in DOMAIN themes.index :
              \A k \in DOMAIN themes.index[n].Palette :
                 Canonical(themes.index[n].Palette[k])
        /\ \A f \in Unnormalizable : ~Indexed(f)

\* C11 as stated: a load that meets a file that does not parse or validate
\* returns success, does not index that file, and indexes every valid palette
\* file of base16/ and base24/ under its basename without extension.
C11_AsStated ==
    (themes.loaded /\ themeFiles.denied = {} /\ FailingFiles # {}) =>
        /\ themes.err = "none"
        /\ \A f \in FailingFiles : ~Indexed(f)
        /\ \A g \in ValidFiles : Indexed(g)

\* C11: a load whose directories can be read returns success whatever files
\* fail; the index has exactly the basenames of the valid palette files, no
\* failing file is indexed, and a valid file is the one indexed under its
\* basename unless it is in base16/ and base24/ has a valid file of the same
\* basename; a directory that is absent adds nothing and is no error.
C11_FailuresAreSkipped ==
    (themes.loaded /\ themeFiles.denied = {}) =>
        /\ themes.err = "none"
        /\ DOMAIN themes.index = {g.name : g \in ValidFiles}
        /\ \A f \in FailingFiles : ~Indexed(f)
        /\ \A g \in ValidFiles :
              (g.dir = "base24" \/ ~\E h \in ValidFiles : h.dir = "base24" /\ h.name = g.name)
              => Indexed(g)

\* a load that skipped a failing file of base16/ and indexed a valid file of
\* base16/ and one of base24/, base24/ being the only directory in another run
C11_Witness ==
    /\ themes.loaded /\ themes.err = "none"
    /\ themeFiles.denied = {}
    /\ \E f \in FailingFiles : f.dir = "base16"
    /\ \E g \in ValidFiles : g.dir = "base16" /\ Indexed(g)
    /\ \E h \in ValidFiles : h.dir = "base24" /\ Indexed(h)

(* Commands: generate, switch-current, cycle *)

\* the most command invocations in one behaviour
MaxRuns == 2

\* the latest time.Now(), in hours since the first invocation
MaxClock == 1

DefaultWidth == 1920

DefaultHeight == 1080

\* strings.HasPrefix / strings.TrimPrefix on the theme names of the model
ShortNames == {"nord", "gruvbox", "missing", "base16-nord"}

Prefixed ==
    {[name |-> p \o n, prefix |-> p, rest |-> n] : p \in {"base16-", "base24-"}, n \in ShortNames}

HasPrefix(name, prefix) == \E t \in Prefixed : t.name = name /\ t.prefix = prefix

TrimPrefix(name, prefix) == (CHOOSE t \in Prefixed : t.name = name /\ t.prefix = prefix).rest

\* a GetTheme that looks the name up as it is and nowhere else
GetThemeExactOnly(index, name) ==
    IF name \in DOMAIN index THEN [found |-> TRUE, key |-> name]
    ELSE [found |-> FALSE, key |-> ""]

\* ThemeManager.GetTheme: the key of the index the name resolves to
GetTheme(index, name) ==
    IF name \in DOMAIN index THEN [found |-> TRUE, key |-> name]
    ELSE IF HasPrefix(name, "base16-")
         THEN LET shortName == TrimPrefix(name, "base16-")
              IN  IF shortName \in DOMAIN index THEN [found |-> TRUE, key |-> shortName]
                  ELSE [found |-> FALSE, key |-> ""]
         ELSE IF HasPrefix(name, "base24-")
              THEN LET shortName == TrimPrefix(name, "base24-")
                   IN  IF shortName \in DOMAIN index THEN [found |-> TRUE, key |-> shortName]
                       ELSE [found |-> FALSE, key |-> ""]
              ELSE [found |-> FALSE, key |-> ""]

\* the names asked of a loaded store
LookupNames ==
    {"nord", "base16-nord", "base24-nord", "base16-base16-nord", "base24-gruvbox", "missing"}

\* tm.GetTheme(name) on a manager whose load succeeded
Get ==
    /\ themes.loaded /\ themes.err = "none"
    /\ ~themes.got.asked
    /\ \E name \in LookupNames :
          LET got == GetTheme(themes.index, name)
          IN  themes' = [themes EXCEPT
                  !.got = [asked |-> TRUE, name |-> name, found |-> got.found, key |-> got.key]]
    /\ UNCHANGED themeFiles

\* C12: get(name) returns the palette indexed under exactly name when there is
\* one; otherwise, when name begins with base16- or base24-, the palette
\* indexed under name without that prefix; otherwise NotFound.
C12_ExactThenStripped ==
    themes.got.asked =>
        LET name     == themes.got.name
            stripped == {t.rest : t \in {u \in Prefixed : u.name = name}}
        IN  IF name \in DOMAIN themes.index
            THEN themes.got.found /\ themes.got.key = name
            ELSE IF \E n \in stripped : n \in DOMAIN themes.index
                 THEN themes.got.found /\ themes.got.key \in stripped
                 ELSE ~themes.got.found

\* a lookup of base16-nord in an index that holds one palette under
\* base16-nord and another under nord, answered with the former
C12_Witness ==
    /\ themes.got.asked /\ themes.got.name = "base16-nord"
    /\ {"nord", "base16-nord"} \subseteq DOMAIN themes.index
    /\ themes.index["nord"] # themes.index["base16-nord"]
    /\ themes.got.found /\ themes.got.key = "base16-nord"

\* formatThemeYAML: baseOrder, the keys it writes
baseOrder == SubSeq(KeyOrder, 1, 16)

\* formatThemeYAML: the four header fields, then one line for every key of
\* baseOrder that the palette has, in that order; no other key is written.
\* (The strings of the model hold no quote and no backslash, which the "%s"
\* of the code would write unescaped.)
formatThemeYAML(theme) ==
    LET present == SelectSeq(baseOrder, LAMBDA k : k \in DOMAIN theme.Palette)
    IN  [system  |-> theme.System,
         name    |-> theme.Name,
         author  |-> theme.Author,
         variant |-> theme.Variant,
         palette |-> [i \in 1..Len(present) |->
                         [key |-> present[i], color |-> theme.Palette[present[i]]]]]

\* yaml.Unmarshal of a document that formatThemeYAML wrote
Unmarshal(data) ==
    Theme(data.system, data.name, data.author, data.variant,
          [k \in {l.key : l \in Range(data.palette)} |->
              (CHOOSE l \in Range(data.palette) : l.key = k).color])

\* SaveTheme, on the disk: the directory of the system is created and
\* <theme.Name>.yaml is written there, over a file of that name
SaveTheme(disk, theme) ==
    LET themeDir == IF theme.System = "base24" THEN "base24" ELSE "base16"
        written  == ThemeFile(themeDir, theme.Name, "yaml", TRUE,
                              Unmarshal(formatThemeYAML(theme)))
    IN  [dirs   |-> disk.dirs \cup {themeDir},
         denied |-> disk.denied,
         files  |-> {f \in disk.files :
                        ~(f.dir = themeDir /\ f.name = theme.Name /\ f.ext = "yaml")}
                    \cup {written}]

\* a palette whose values are in lower case
LowerPalette(keys) == [k \in keys |-> <<"#ab">>]

\* the valid palettes that are saved: both systems, a base16 palette with
\* more than its required keys, values in either case
SaveThemes ==
    {Theme(sp[1], name, author, variant, sp[2]) :
        sp \in {<<"base16", FullPalette(Required16)>>, <<"base16", LowerPalette(Required16)>>,
                <<"base16", FullPalette(Required24)>>, <<"base24", FullPalette(Required24)>>,
                <<"base24", LowerPalette(Required24)>>},
        name \in {"nord", "mytheme"}, author \in {"a", "extracted"},
        variant \in {"dark", "light"}}

\* the themes directories a palette is saved into: none yet, one that has
\* nord.yaml in base16/, one that has it in base24/
SaveDisks ==
    {[dirs |-> {}, denied |-> {}, files |-> {}],
     [dirs |-> {"base16", "base24"}, denied |-> {},
      files |-> {ThemeFile("base16", "nord", "yaml", TRUE,
                           Theme("base16", "Nord", "a", "dark", FullPalette(Required16)))}],
     [dirs |-> {"base24"}, denied |-> {},
      files |-> {ThemeFile("base24", "nord", "yaml", TRUE,
                           Theme("base24", "Nord", "a", "dark", FullPalette(Required24)))}]}

SaveInit ==
    /\ themeFiles \in SaveDisks
    /\ themes = NewThemeManager

\* theme.NewThemeManager(path).SaveTheme(theme), as extract-colors calls it
Save ==
    /\ ~themes.loaded
    /\ themes.saved = NoTheme
    /\ \E theme \in SaveThemes :
          /\ themeFiles' = SaveTheme(themeFiles, theme)
          /\ themes' = [themes EXCEPT
                  !.saved = theme,
                  !.index = [n \in DOMAIN themes.index \cup {theme.Name} |->
                                IF n = theme.Name THEN theme ELSE themes.index[n]]]

\* C13 as stated: a valid palette that was saved is, after the store is
\* loaded, indexed under its name with the system, name, author, variant and
\* every required entry it was saved with.
C13_AsStated ==
    (themes.saved # NoTheme /\ themes.loaded) =>
        /\ themes.err = "none"
        /\ themes.saved.Name \in DOMAIN themes.index
        /\ LET P == themes.saved
               Q == themes.index[themes.saved.Name]
           IN  /\ Q.System = P.System /\ Q.Name = P.Name
               /\ Q.Author = P.Author /\ Q.Variant = P.Variant
               /\ \A k \in RequiredColors(P.System) :
                     k \in DOMAIN Q.Palette /\ Q.Palette[k] = P.Palette[k]

\* the themes directory of the commands: two base16 themes
GruvboxPalette == [k \in Required16 |-> <<"#g" \o k>>]

StockDisk ==
    [dirs  |-> {"base16"}, denied |-> {},
     files |-> {ThemeFile("base16", "nord", "yaml", TRUE,
                          Theme("base16", "Nord", "a", "dark", FullPalette(Required16))),
                ThemeFile("base16", "gruvbox", "yaml", TRUE,
                          Theme("base16", "Gruvbox", "b", "dark", GruvboxPalette))}]

StockIndex == LoadThemes(StockDisk).index

\* a width or height attribute of the root element, one token
Attr(name, v) == name \o "=" \o ToString(v)

\* the sizes the documents declare
SourceSizes == {50, 100}

\* the templates directory: path relative to it, content
TemplateFiles ==
    {[path |-> Path(<<>>, "shapes", "svg"),
      content |-> <<"<svg", Attr("width", 100), Attr("height", 100)>> \o Placeholder("base00")],
     [path |-> Path(<<>>, "bars", "svg"),
      content |-> <<"<svg", Attr("width", 100), Attr("height", 100)>> \o Placeholder("base01")],
     [path |-> Path(<<"dark">>, "shapes", "svg"),
      content |-> <<"<svg", Attr("width", 100), Attr("height", 100)>>
                  \o Placeholder("base00") \o Placeholder("base01")],
     [path |-> Path(<<>>, "unbound", "svg"),
      content |-> <<"<svg", Attr("width", 100), Attr("height", 100)>> \o Placeholder("base1F")],
     [path |-> Path(<<>>, "unsized", "svg"),
      content |-> <<"<svg">> \o Placeholder("base00")]}

TemplatesPath == <<"templates">>

OutputPath == <<"out">>

\* os.ReadFile of a template
ReadTemplate(templatePath) ==
    IF \E t \in TemplateFiles : Join(TemplatesPath, t.path) = templatePath
    THEN (CHOOSE t \in TemplateFiles : Join(TemplatesPath, t.path) = templatePath).content
    ELSE NoFile

\* the relative paths of the templates directory in the order of sort.Strings
TemplateListing ==
    <<Path(<<>>, "bars", "svg"), Path(<<"dark">>, "shapes", "svg"), Path(<<>>, "shapes", "svg"),
      Path(<<>>, "unbound", "svg"), Path(<<>>, "unsized", "svg")>>

\* findTemplates, then sort.Strings
findTemplates ==
    SelectSeq(TemplateListing,
              LAMBDA p : p.ext = "svg" /\ \E t \in TemplateFiles : t.path = p)

\* the entry "all" of preferred_templates
All == Path(<<>>, "all", "")

getTemplatesToCycle(c) ==
    IF Len(c.PreferredTemplates) = 0 THEN [err |-> TRUE, templates |-> <<>>]
    ELSE IF \E i \in DOMAIN c.PreferredTemplates : c.PreferredTemplates[i] = All
         THEN [err |-> FALSE, templates |-> findTemplates]
         ELSE [err |-> FALSE, templates |-> c.PreferredTemplates]

\* what ProcessTemplate can return for a template file and a theme, over the
\* orders in which the palette can be visited
BindResults(templatePath, key) ==
    {ProcessTemplate(ReadTemplate(templatePath), StockIndex[key], o) :
        o \in RangeOrders(StockIndex[key].Palette)}

KnownTemplatePaths ==
    {Join(TemplatesPath, t.path) : t \in TemplateFiles} \cup {Path(TemplatesPath, "gone", "svg")}

BoundTable ==
    [x \in KnownTemplatePaths \X DOMAIN StockIndex |-> BindResults(x[1], x[2])]

Bound(templatePath, key) ==
    IF <<templatePath, key>> \in DOMAIN BoundTable THEN BoundTable[<<templatePath, key>>]
    ELSE BindResults(templatePath, key)

\* the name of a file as one string
BaseName(path) == IF path.ext = "" THEN path.stem ELSE path.stem \o "." \o path.ext

\* templateName: filepath.Base(templatePath) without a trailing ".svg"
TemplateStem(templatePath) ==
    IF Ext(templatePath) = "svg" THEN templatePath.stem ELSE BaseName(templatePath)

\* filepath.Join(cfg.TemplatesPath, t), then ".svg" when there is no extension
ResolveTemplate(c, t) ==
    LET templatePath == Join(c.TemplatesPath, t)
    IN  IF Ext(templatePath) = "" THEN [templatePath EXCEPT !.ext = "svg"] ELSE templatePath

\* a part of a resolution string split at "x": digits with their value, or not
Num(v) == [digits |-> TRUE, val |-> v]

Word == [digits |-> FALSE, val |-> 0]

NoResolution == [err |-> "none", Width |-> 0, Height |-> 0, warned |-> FALSE]

ParseResolution(parts) ==
    IF Len(parts) # 2 THEN [NoResolution EXCEPT !.err = "invalid resolution format"]
    ELSE IF ~parts[1].digits THEN [NoResolution EXCEPT !.err = "invalid width"]
    ELSE IF ~parts[2].digits THEN [NoResolution EXCEPT !.err = "invalid height"]
    ELSE IF parts[1].val <= 0 \/ parts[2].val <= 0
         THEN [NoResolution EXCEPT !.err = "resolution must be positive"]
         ELSE [NoResolution EXCEPT !.Width = parts[1].val, !.Height = parts[2].val]

\* what GetPrimaryDisplayResolution returns when it can tell
Display == [NoResolution EXCEPT !.Width = 300, !.Height = 200]

\* what the probes return when the display tools fail or print nothing usable
FallbackWidth == 1920
FallbackHeight == 1080

\* Detector.GetPrimaryDisplayResolution: an error on an operating system it
\* does not know ("os"); on the others the resolution of the display, or
\* 1920x1080 and no error when the tools cannot tell ("probe")
GetPrimaryDisplayResolution(e) ==
    IF "os" \in e THEN [NoResolution EXCEPT !.err = "unsupported operating system"]
    ELSE IF "probe" \in e
         THEN [NoResolution EXCEPT !.Width = FallbackWidth, !.Height = FallbackHeight]
         ELSE Display

\* the resolution of an invocation: --resolution, else what the detector
\* returns, else, on its error, the configured default with a warning
ResolveResolution(resolutionStr, e, c) ==
    IF resolutionStr # <<>> THEN ParseResolution(resolutionStr)
    ELSE LET res == GetPrimaryDisplayResolution(e)
         IN  IF res.err # "none"
             THEN [NoResolution EXCEPT !.Width = c.DefaultWidth, !.Height = c.DefaultHeight,
                                       !.warned = TRUE]
             ELSE res

(* The output directory *)

NoFiles == [p \in {} |-> [kind |-> "png", svg |-> <<>>, Width |-> 0, Height |-> 0, mtime |-> 0]]

Exists(f, path) == path \in DOMAIN f

Put(f, path, content) == [p \in DOMAIN f \cup {path} |-> IF p = path THEN content ELSE f[p]]

\* the progress of one invocation: the files, the steps taken, the fatal error
Started(f) == [files |-> f, events |-> <<>>, err |-> "none"]

Log(st, op, path) == [st EXCEPT !.events = Append(@, [op |-> op, path |-> path])]

Failed(st, err) == [st EXCEPT !.err = err]

\* Processor.WriteSVG
WriteSVG(st, svgContent, path, now, e) ==
    IF st.err # "none" THEN st
    ELSE IF "write" \in e THEN Failed(st, "WriteError")
    ELSE Log([st EXCEPT !.files = Put(@, path,
                  [kind |-> "svg", svg |-> svgContent, Width |-> 0, Height |-> 0, mtime |-> now])],
             "write", path)

\* extractSVGDimensions: the first width and the first height attribute
extractSVGDimensions(svgContent) ==
    LET ws == {i \in DOMAIN svgContent : \E v \in SourceSizes : svgContent[i] = Attr("width", v)}
        hs == {i \in DOMAIN svgContent : \E v \in SourceSizes : svgContent[i] = Attr("height", v)}
    IN  IF ws = {} \/ hs = {} THEN [err |-> TRUE, Width |-> 0, Height |-> 0]
        ELSE LET wi == CHOOSE i \in ws : \A j \in ws : i <= j
                 hi == CHOOSE i \in hs : \A j \in hs : i <= j
             IN  [err |-> FALSE,
                  Width  |-> CHOOSE v \in SourceSizes : svgContent[wi] = Attr("width", v),
                  Height |-> CHOOSE v \in SourceSizes : svgContent[hi] = Attr("height", v)]

\* GenerateWallpaper = SVGToPNG: the final image is width x height
GenerateWallpaper(st, svgContent, width, height, path, now, e) ==
    IF st.err # "none" THEN st
    ELSE IF extractSVGDimensions(svgContent).err THEN Failed(st, "RasterError")
    ELSE IF "write" \in e THEN Failed(st, "WriteError")
    ELSE Log([st EXCEPT !.files = Put(@, path,
                  [kind |-> "png", svg |-> svgContent, Width |-> width, Height |-> height,
                   mtime |-> now])],
             "write", path)

\* copyFile, fatal when it fails
copyFile(st, src, dst, now, e) ==
    IF st.err # "none" THEN st
    ELSE IF ~Exists(st.files, src) \/ "write" \in e THEN Failed(st, "WriteError")
    ELSE Log([st EXCEPT !.files = Put(@, dst, [st.files[src] EXCEPT !.mtime = now])],
             "copy", dst)

\* the cache-busting copy of the wallpaper
TempPath(dir, now) == Path(dir, "current_temp_" \o ToString(now), "png")

IsTemp(path, dir) == \E t \in 0..MaxClock : path = TempPath(dir, t)

\* the sweep of the temporary copies that are older than one hour
inlineCleanupOldTempFiles(st, dir, now) ==
    LET stale == {p \in DOMAIN st.files : IsTemp(p, dir) /\ now - st.files[p].mtime > 1}
    IN  Log([st EXCEPT !.files = [p \in DOMAIN st.files \ stale |-> st.files[p]]],
            "cleanup", Path(dir, "", ""))

\* the copy to the temporary file; a failure is only warned about
TempCopy(st, src, dir, now, e) ==
    IF st.err # "none" THEN st
    ELSE IF ~Exists(st.files, src) \/ "tempcopy" \in e \/ "write" \in e
         THEN Log(st, "warn temp", TempPath(dir, now))
         ELSE inlineCleanupOldTempFiles(
                  Log([st EXCEPT !.files = Put(@, TempPath(dir, now),
                                               [st.files[src] EXCEPT !.mtime = now])],
                      "temp", TempPath(dir, now)),
                  dir, now)

TempCopied(st, src, e) ==
    st.err = "none" /\ Exists(st.files, src) /\ "tempcopy" \notin e /\ "write" \notin e

\* a SetWallpaper whose failure ends the invocation
SetWallpaperFatal(st, path, e) ==
    IF st.err # "none" THEN st
    ELSE IF "setter" \in e THEN Failed(Log(st, "warn wallpaper", path), "SetterError")
    ELSE Log(st, "wallpaper", path)

\* Setter.SetWallpaper; a failure is only warned about
SetWallpaper(st, path, e) ==
    IF st.err # "none" THEN st
    ELSE IF "setter" \in e THEN Log(st, "warn wallpaper", path)
    ELSE Log(st, "wallpaper", path)

\* what an invocation reports besides its outcome
NoInfo ==
    [theme |-> "", next |-> NoNext, template |-> NoNext, bound |-> <<>>,
     res |-> NoResolution, named |-> NoNext]

\* an invocation that saves although it ended with a fatal error
FinishAlwaysSaves(c, st, theme, template, path, e, info) ==
    [cfg    |-> [c EXCEPT !.CurrentTheme = theme, !.CurrentTemplate = template,
                          !.LastOutputPath = path],
     files  |-> st.files, outcome |-> IF st.err # "none" THEN "fatal" ELSE "ok",
     err    |-> st.err,
     events |-> Append(st.events, [op |-> "save", path |-> path]),
     saved  |-> TRUE, info |-> info]

\* The end of an invocation.  A fatal error returns before the state is
\* touched; otherwise cfg.CurrentTheme, cfg.CurrentTemplate and
\* cfg.LastOutputPath are set and cfg.Save() runs, its failure only warned about.
Finish(c, st, theme, template, path, e, info) ==
    IF st.err # "none"
    THEN [cfg |-> c, files |-> st.files, outcome |-> "fatal", err |-> st.err,
          events |-> st.events, saved |-> FALSE, info |-> info]
    ELSE IF "save" \in e
    THEN [cfg |-> c, files |-> st.files, outcome |-> "ok", err |-> "none",
          events |-> Append(st.events, [op |-> "warn save", path |-> path]),
          saved |-> FALSE, info |-> info]
    ELSE [cfg    |-> [c EXCEPT !.CurrentTheme = theme, !.CurrentTemplate = template,
                               !.LastOutputPath = path],
          files  |-> st.files, outcome |-> "ok", err |-> "none",
          events |-> Append(st.events, [op |-> "save", path |-> path]),
          saved  |-> TRUE, info |-> info]

\* the steps of runGenerate after ProcessTemplate has returned b
GenerateOutput(c, f, now, a, e, templatePath, b) ==
    LET themeName     == a.theme
        res           == ResolveResolution(a.resolution, e, c)
        baseOutputDir == c.OutputPath
        themeSubDir   == baseOutputDir \o <<"ppr", themeName>>
        namedFilename ==
            IF a.filename # EmptyPath THEN a.filename
            ELSE Path(<<>>, TemplateStem(templatePath), IF a.svg THEN "svg" ELSE "png")
        namedVariantPath     == Join(themeSubDir, namedFilename)
        currentWallpaperPath == Path(baseOutputDir, "current", "png")
        info == [NoInfo EXCEPT !.theme = themeName, !.template = templatePath,
                               !.bound = b.text, !.res = res, !.named = namedVariantPath]
        st0  == IF res.warned THEN Log(Started(f), "warn resolution", EmptyPath) ELSE Started(f)
        st1  == IF ~a.svg THEN st0
                ELSE IF Exists(f, namedVariantPath) THEN Log(st0, "reuse", namedVariantPath)
                ELSE WriteSVG(st0, b.text, namedVariantPath, now, e)
        needPNG     == ~a.svg \/ a.wallpaper \/ c.AutoSetWallpaper
        pngFilename ==
            IF a.svg /\ a.filename # EmptyPath
            THEN IF Ext(a.filename) = "svg" THEN [a.filename EXCEPT !.ext = "png"] ELSE a.filename
            ELSE IF a.svg THEN Path(<<>>, TemplateStem(templatePath), "png")
            ELSE a.filename
        pngPath == IF a.svg THEN Join(themeSubDir, pngFilename) ELSE namedVariantPath
        st2  == IF ~needPNG \/ st1.err # "none" THEN st1
                ELSE IF Exists(st1.files, pngPath) THEN Log(st1, "reuse", pngPath)
                ELSE GenerateWallpaper(st1, b.text, res.Width, res.Height, pngPath, now, e)
        st3  == IF ~needPNG THEN st2 ELSE copyFile(st2, pngPath, currentWallpaperPath, now, e)
        pngGenerated == needPNG
        setIt  == a.wallpaper \/ c.AutoSetWallpaper
        copied == setIt /\ pngGenerated /\ TempCopied(st3, currentWallpaperPath, e)
        st4  == IF ~setIt \/ st3.err # "none" THEN st3
                ELSE IF ~pngGenerated THEN Log(st3, "warn wallpaper", EmptyPath)
                ELSE TempCopy(st3, currentWallpaperPath, baseOutputDir, now, e)
        wallpaperPath == IF copied THEN TempPath(baseOutputDir, now) ELSE currentWallpaperPath
        st5  == IF setIt /\ pngGenerated THEN SetWallpaper(st4, wallpaperPath, e) ELSE st4
    IN  IF b.err # "none"
        THEN Finish(c, Failed(Started(f), b.err), "", EmptyPath, EmptyPath, e,
                    [NoInfo EXCEPT !.theme = themeName, !.template = templatePath])
        ELSE IF res.err # "none"
        THEN Finish(c, Failed(Started(f), "BadResolution"), "", EmptyPath, EmptyPath, e,
                    [NoInfo EXCEPT !.theme = themeName, !.template = templatePath,
                                   !.bound = b.text])
        ELSE Finish(c, st5, themeName, Base(templatePath), wallpaperPath, e, info)

\* runGenerate: the outcomes of one invocation
runGenerate(c, f, now, a, e) ==
    LET got == GetTheme(StockIndex, a.theme)
        templatePath ==
            ResolveTemplate(c, IF a.template = EmptyPath THEN c.DefaultTemplate ELSE a.template)
    IN  IF ~got.found
        THEN {Finish(c, Failed(Started(f), "ThemeNotFound"), "", EmptyPath, EmptyPath, e,
                     [NoInfo EXCEPT !.theme = a.theme])}
        ELSE {GenerateOutput(c, f, now, a, e, templatePath, b) : b \in Bound(templatePath, got.key)}

\* the steps of runSwitchCurrent after ProcessTemplate has returned b
SwitchOutput(c, f, now, a, e, templatePath, b) ==
    LET newThemeName  == a.theme
        res           == ResolveResolution(a.resolution, e, c)
        baseOutputDir == c.OutputPath
        themeSubDir   == baseOutputDir \o <<"ppr", newThemeName>>
        namedFilename ==
            IF a.filename # EmptyPath THEN a.filename
            ELSE Path(<<>>, TemplateStem(templatePath), IF a.svg THEN "svg" ELSE "png")
        namedVariantPath     == Join(themeSubDir, namedFilename)
        currentWallpaperPath == Path(baseOutputDir, "current", "png")
        info == [NoInfo EXCEPT !.theme = newThemeName, !.template = templatePath,
                               !.bound = b.text, !.res = res, !.named = namedVariantPath]
        st0  == IF res.warned THEN Log(Started(f), "warn resolution", EmptyPath) ELSE Started(f)
        st1  == IF a.svg
                THEN IF Exists(f, namedVariantPath) THEN Log(st0, "reuse", namedVariantPath)
                     ELSE WriteSVG(st0, b.text, namedVariantPath, now, e)
                ELSE copyFile(IF Exists(f, namedVariantPath)
                              THEN Log(st0, "reuse", namedVariantPath)
                              ELSE GenerateWallpaper(st0, b.text, res.Width, res.Height,
                                                     namedVariantPath, now, e),
                              namedVariantPath, currentWallpaperPath, now, e)
        setIt  == a.wallpaper \/ c.AutoSetWallpaper
        first  == IF a.svg THEN namedVariantPath ELSE currentWallpaperPath
        copied == setIt /\ ~a.svg /\ TempCopied(st1, first, e)
        st2  == IF ~setIt \/ a.svg THEN st1 ELSE TempCopy(st1, first, baseOutputDir, now, e)
        wallpaperPath == IF copied THEN TempPath(baseOutputDir, now) ELSE first
        st3  == IF setIt THEN SetWallpaper(st2, wallpaperPath, e) ELSE st2
    IN  IF b.err # "none"
        THEN Finish(c, Failed(Started(f), b.err), "", EmptyPath, EmptyPath, e,
                    [NoInfo EXCEPT !.theme = newThemeName, !.template = templatePath])
        ELSE IF res.err # "none"
        THEN Finish(c, Failed(Started(f), "BadResolution"), "", EmptyPath, EmptyPath, e,
                    [NoInfo EXCEPT !.theme = newThemeName, !.template = templatePath,
                                   !.bound = b.text])
        ELSE Finish(c, st3, newThemeName, Base(templatePath), wallpaperPath, e, info)

\* runSwitchCurrent: the outcomes of one invocation
runSwitchCurrent(c, f, now, a, e) ==
    LET templateToUse ==
            IF c.CurrentTemplate = EmptyPath THEN c.DefaultTemplate ELSE c.CurrentTemplate
        got          == GetTheme(StockIndex, a.theme)
        templatePath == ResolveTemplate(c, templateToUse)
    IN  IF ~got.found
        THEN {Finish(c, Failed(Started(f), "ThemeNotFound"), "", EmptyPath, EmptyPath, e,
                     [NoInfo EXCEPT !.theme = a.theme])}
        ELSE {SwitchOutput(c, f, now, a, e, templatePath, b) : b \in Bound(templatePath, got.key)}

\* the steps of runCycle after ProcessTemplate has returned b
CycleOutput(c, f, now, a, e, themeToUse, nextTemplate, templatePath, b) ==
    LET res       == ResolveResolution(a.resolution, e, c)
        outputDir == c.OutputPath
        filename  ==
            IF a.filename # EmptyPath THEN a.filename
            ELSE Path(<<>>,
                      themeToUse \o "-" \o BaseName(Base(nextTemplate)) \o "-" \o ToString(now),
                      IF a.svg THEN "svg" ELSE "png")
        finalOutputPath == Join(outputDir, filename)
        info == [NoInfo EXCEPT !.theme = themeToUse, !.next = nextTemplate,
                               !.template = templatePath, !.bound = b.text, !.res = res,
                               !.named = finalOutputPath]
        st0  == IF res.warned THEN Log(Started(f), "warn resolution", EmptyPath) ELSE Started(f)
        st1  == IF a.svg THEN WriteSVG(st0, b.text, finalOutputPath, now, e)
                ELSE GenerateWallpaper(st0, b.text, res.Width, res.Height, finalOutputPath, now, e)
        st2  == IF a.wallpaper THEN SetWallpaper(st1, finalOutputPath, e) ELSE st1
    IN  IF b.err # "none"
        THEN Finish(c, Failed(Started(f), b.err), "", EmptyPath, EmptyPath, e,
                    [NoInfo EXCEPT !.theme = themeToUse, !.next = nextTemplate,
                                   !.template = templatePath])
        ELSE IF res.err # "none"
        THEN Finish(c, Failed(Started(f), "BadResolution"), "", EmptyPath, EmptyPath, e,
                    [NoInfo EXCEPT !.theme = themeToUse, !.next = nextTemplate,
                                   !.template = templatePath, !.bound = b.text])
        ELSE Finish(c, st2, themeToUse, Base(nextTemplate), finalOutputPath, e, info)

\* runCycle: the outcomes of one invocation
runCycle(c, f, now, a, e) ==
    LET themeToUse ==
            IF a.theme # "" THEN a.theme
            ELSE IF c.CurrentTheme # "" THEN c.CurrentTheme ELSE c.DefaultTheme
        got  == GetTheme(StockIndex, themeToUse)
        list == getTemplatesToCycle(c)
        nextTemplate == getNextTemplate(list.templates, c.CurrentTemplate)
        templatePath == ResolveTemplate(c, nextTemplate)
    IN  IF ~got.found
        THEN {Finish(c, Failed(Started(f), "ThemeNotFound"), "", EmptyPath, EmptyPath, e,
                     [NoInfo EXCEPT !.theme = themeToUse])}
        ELSE IF list.err \/ Len(list.templates) = 0
        THEN {Finish(c, Failed(Started(f), "NoTemplates"), "", EmptyPath, EmptyPath, e,
                     [NoInfo EXCEPT !.theme = themeToUse])}
        ELSE {CycleOutput(c, f, now, a, e, themeToUse, nextTemplate, templatePath, b) :
                  b \in Bound(templatePath, got.key)}

(* Inputs of the commands *)

\* the flags of an invocation
Args(theme, template, resolution, svg, wallpaper, filename) ==
    [theme |-> theme, template |-> template, resolution |-> resolution, svg |-> svg,
     wallpaper |-> wallpaper, filename |-> filename]

R200x100 == <<Num(200), Num(100)>>

R100x100 == <<Num(100), Num(100)>>

Shapes == Path(<<>>, "shapes", "")

Bars == Path(<<>>, "bars", "svg")

DarkShapes == Path(<<"dark">>, "shapes", "svg")

WPng == Path(<<>>, "w", "png")

\* generate: the default template and another one, the display probe,
\* --filename, --svg, --set-wallpaper, a template given without extension and
\* one in a subdirectory, and the invocations that fail
GenerateArgs ==
    {Args("nord", t, R200x100, FALSE, FALSE, fn) : t \in {EmptyPath, Bars}, fn \in {EmptyPath, WPng}}
    \cup {Args("nord", EmptyPath, R200x100, svg, wp, EmptyPath) :
             svg \in BOOLEAN, wp \in BOOLEAN}
    \cup {Args("nord", EmptyPath, <<>>, FALSE, FALSE, EmptyPath),
          Args("nord", Shapes, R200x100, FALSE, FALSE, EmptyPath),
          Args("nord", DarkShapes, R200x100, FALSE, FALSE, EmptyPath),
          Args("missing", EmptyPath, R200x100, FALSE, FALSE, EmptyPath),
          Args("nord", Path(<<>>, "gone", "svg"), R200x100, FALSE, FALSE, EmptyPath),
          Args("nord", Path(<<>>, "unbound", "svg"), R200x100, FALSE, FALSE, EmptyPath),
          Args("nord", Path(<<>>, "unsized", "svg"), R200x100, FALSE, FALSE, EmptyPath),
          Args("nord", EmptyPath, <<Word, Num(100)>>, FALSE, FALSE, EmptyPath)}

SwitchArgs ==
    {Args("gruvbox", EmptyPath, R200x100, svg, wp, EmptyPath) : svg \in BOOLEAN, wp \in BOOLEAN}
    \cup {Args("nord", EmptyPath, R100x100, FALSE, FALSE, EmptyPath)}

\* cycle sets the wallpaper unless --set-wallpaper=false
CycleArgs ==
    {Args("", EmptyPath, R200x100, FALSE, TRUE, EmptyPath),
     Args("", EmptyPath, R200x100, FALSE, FALSE, EmptyPath),
     Args("", EmptyPath, R200x100, TRUE, FALSE, EmptyPath),
     Args("gruvbox", EmptyPath, R200x100, FALSE, TRUE, EmptyPath)}

\* What the environment can refuse in one invocation: the display probe, the
\* wallpaper setter, the temporary copy, the creation of output files, the
\* save of config.toml.  At most one of them per invocation, and only where
\* the invocation gets to it.
Faults(a) ==
    {{}}
    \cup (IF a.resolution = <<>> THEN {{"probe"}, {"os"}} ELSE {})
    \cup (IF a.wallpaper /\ ~a.svg /\ a.theme # "nord" THEN {{"setter"}} ELSE {})
    \cup (IF a.wallpaper /\ ~a.svg /\ a.theme = "nord" THEN {{"setter"}, {"tempcopy"}} ELSE {})
    \cup (IF a.template = EmptyPath /\ a.resolution = R200x100 /\ a.filename = EmptyPath
             /\ ~a.wallpaper /\ ~a.svg /\ a.theme # "missing"
          THEN {{"write"}} ELSE {})
    \cup (IF a.template = EmptyPath /\ a.resolution = R200x100 /\ a.filename = EmptyPath
             /\ ~a.wallpaper /\ ~a.svg /\ a.theme \in {"nord", ""}
          THEN {{"save"}} ELSE {})

PreferredLists ==
    {<<Shapes, Path(<<>>, "bars", "")>>,
     <<DarkShapes, Path(<<>>, "shapes", "svg"), Bars>>,
     <<All>>}

\* config.toml before the first invocation
DefaultConfig(preferred) ==
    [ThemesPath         |-> <<"themes">>,
     TemplatesPath      |-> TemplatesPath,
     OutputPath         |-> OutputPath,
     DefaultTheme       |-> "nord",
     DefaultTemplate    |-> Path(<<>>, "shapes", "svg"),
     DefaultWidth       |-> DefaultWidth,
     DefaultHeight      |-> DefaultHeight,
     AutoSetWallpaper   |-> FALSE,
     CurrentTheme       |-> "",
     CurrentTemplate    |-> EmptyPath,
     LastOutputPath     |-> EmptyPath,
     PreferredTemplates |-> preferred]

NoRun ==
    [n |-> 0, cmd |-> "none", args |-> Args("", EmptyPath, <<>>, FALSE, FALSE, EmptyPath),
     faults |-> {}, outcome |-> "none", err |-> "none", events |-> <<>>, saved |-> FALSE,
     info |-> NoInfo, before |-> DefaultConfig(<<>>), hist |-> {}, picks |-> <<>>]

\* config.toml as the user has edited it: a list of preferred templates and
\* a default resolution of 1280x720
UserConfig(preferred) ==
    [DefaultConfig(preferred) EXCEPT !.DefaultWidth = 1280, !.DefaultHeight = 720]

CmdInit ==
    /\ cfg \in {UserConfig(p) : p \in PreferredLists}
    /\ files = NoFiles
    /\ last = NoRun
    /\ clock = 0

CmdIdle ==
    /\ cfg = DefaultConfig(<<All>>)
    /\ files = NoFiles
    /\ last = NoRun
    /\ clock = 0

\* the effect of one invocation with outcome r
Invoke(name, a, e, r) ==
    /\ cfg' = r.cfg
    /\ files' = r.files
    /\ last' = [n |-> last.n + 1, cmd |-> name, args |-> a, faults |-> e,
                outcome |-> r.outcome, err |-> r.err, events |-> r.events,
                saved |-> r.saved, info |-> r.info, before |-> cfg,
                hist |-> last.hist \cup {<<name, r.outcome, a.svg>>},
                picks |-> IF name = "cycle" /\ r.outcome = "ok" /\ r.saved
                          THEN Append(last.picks, r.info.next) ELSE <<>>]
    /\ UNCHANGED clock

\* ppr generate
Generate ==
    /\ last.n < MaxRuns
    /\ \E a \in GenerateArgs : \E e \in Faults(a) :
          \E r \in runGenerate(cfg, files, clock, a, e) : Invoke("generate", a, e, r)

\* ppr switch-current
SwitchCurrent ==
    /\ last.n < MaxRuns
    /\ \E a \in SwitchArgs : \E e \in Faults(a) :
          \E r \in runSwitchCurrent(cfg, files, clock, a, e) : Invoke("switch-current", a, e, r)

\* ppr cycle
Cycle ==
    /\ last.n < MaxRuns
    /\ \E a \in CycleArgs : \E e \in Faults(a) :
          \E r \in runCycle(cfg, files, clock, a, e) : Invoke("cycle", a, e, r)

\* the entries of the lists that are cycled through: written without
\* extension, with it, and in a subdirectory; every one is a template that binds
RoundNames == {Shapes, Bars, DarkShapes, Path(<<>>, "shapes", "svg")}

\* current_template as an earlier session left it
RoundCurrents == {EmptyPath, Path(<<>>, "shapes", "svg"), Bars, Path(<<>>, "waves", "svg")}

RoundsInit ==
    /\ cfg \in {[UserConfig(p) EXCEPT !.CurrentTemplate = c] :
                    p \in SeqsUpTo(RoundNames, MaxTemplates) \ {<<>>}, c \in RoundCurrents}
    /\ files = NoFiles
    /\ last = NoRun
    /\ clock = 0

\* ppr cycle --resolution 200x100 --set-wallpaper=false, once more, until
\* there have been as many invocations as the list has entries
CycleRound ==
    /\ last.n < Len(getTemplatesToCycle(cfg).templates)
    /\ LET a == Args("", EmptyPath, R200x100, FALSE, FALSE, EmptyPath)
       IN  \E r \in runCycle(cfg, files, clock, a, {}) : Invoke("cycle", a, {}, r)

\* time passes between two invocations
Tick ==
    /\ 0 < last.n /\ last.n < MaxRuns
    /\ clock < MaxClock
    /\ clock' = clock + 1
    /\ UNCHANGED <<cfg, files, last>>

(* Claims about the commands *)

CurrentPng == Path(OutputPath, "current", "png")

\* <output_root>/ppr/<palette_name>/<template_stem>.png of the last invocation
NamedPng ==
    Path(OutputPath \o <<"ppr", last.info.theme>>, TemplateStem(last.info.template), "png")

\* two files hold the same image
SameImage(x, y) == [x EXCEPT !.mtime = 0] = [y EXCEPT !.mtime = 0]

Succeeded(name) == last.cmd = name /\ last.outcome = "ok"

\* C4: after a successful cycle the session state records as current_template
\* exactly the list element that was selected, and as current_theme the
\* palette that was used.
C4_AsStated ==
    (Succeeded("cycle") /\ last.saved) =>
        /\ cfg.CurrentTemplate = last.info.next
        /\ cfg.CurrentTheme = last.info.theme

\* C5: a generate, switch-current or cycle that succeeds in PNG mode (and
\* without --filename) has written current.png and the named variant
\* ppr/<palette>/<stem>.png, and the two hold the same image.
C5_AsStated ==
    (last.outcome = "ok" /\ ~last.args.svg /\ last.args.filename = EmptyPath) =>
        /\ Exists(files, CurrentPng)
        /\ Exists(files, NamedPng)
        /\ SameImage(files[CurrentPng], files[NamedPng])

\* every invocation so far was a successful generate or switch-current in PNG mode
OnlyPngGenerations ==
    \A h \in last.hist : h[1] \in {"generate", "switch-current"} /\ h[2] = "ok" /\ ~h[3]

\* C6: after successful generate and switch-current invocations in PNG mode,
\* current.png is the rendering of the palette and template of the last
\* invocation, the ones recorded in the session state.
C6_AsStated ==
    (last.n > 0 /\ OnlyPngGenerations /\ last.saved) =>
        /\ cfg.CurrentTheme = last.info.theme
        /\ cfg.CurrentTemplate = Base(last.info.template)
        /\ Exists(files, CurrentPng)
        /\ files[CurrentPng].kind = "png"
        /\ files[CurrentPng].svg = last.info.bound

\* every invocation so far was a generate or a switch-current
OnlyGenerations == \A h \in last.hist : h[1] \in {"generate", "switch-current"}

\* C7: a successful generate in PNG mode with --resolution W x H leaves a
\* named variant and a current.png of W x H pixels, whatever generate or
\* switch-current invocations preceded it.
C7_AsStated ==
    (Succeeded("generate") /\ ~last.args.svg /\ last.args.resolution # <<>> /\ OnlyGenerations) =>
        \A p \in {CurrentPng, last.info.named} :
            /\ Exists(files, p)
            /\ files[p].Width = last.args.resolution[1].val
            /\ files[p].Height = last.args.resolution[2].val

\* the positions of the events of the last invocation with one of the ops
EventsOf(ops) == {i \in DOMAIN last.events : last.events[i].op \in ops}

\* C8: the save of the session state is the last step of an invocation, after
\* the output image is on disk and after the wallpaper setter, when one was
\* requested, has succeeded or been warned about; an invocation that ends
\* with a fatal error saves nothing and leaves the session state as it was.
C8_SaveIsLast ==
    /\ \A i \in EventsOf({"save", "warn save"}) :
          /\ i = Len(last.events)
          /\ last.outcome = "ok"
          /\ Exists(files, last.info.named)
          /\ \E j \in EventsOf({"write", "reuse"}) : j < i
          /\ last.args.wallpaper =>
                \E j \in EventsOf({"wallpaper", "warn wallpaper"}) : j < i
    /\ last.saved <=> EventsOf({"save"}) # {}
    /\ (last.n > 0 /\ ~last.saved) => cfg = last.before
    /\ last.outcome = "fatal" =>
          /\ ~last.saved
          /\ EventsOf({"save", "warn save"}) = {}
          /\ last.err \in {"ThemeNotFound", "ReadError", "UnresolvedPlaceholder",
                           "MalformedTemplate", "BadResolution", "RasterError",
                           "WriteError", "NoTemplates"}

\* a switch to another palette that fails to write its output after a
\* generate has recorded nord
C8_Witness ==
    /\ last.cmd = "switch-current"
    /\ last.outcome = "fatal"
    /\ last.err = "WriteError"
    /\ last.info.theme = "gruvbox"
    /\ last.before.CurrentTheme = "nord"
    /\ cfg.CurrentTheme = "nord"

\* C19: when the wallpaper setter fails in an invocation that has produced its
\* output, the invocation still returns success and saves the session state
\* with the palette used, the template used and the path handed to the setter.
C19_SetterFailureIsNotFatal ==
    ("setter" \in last.faults /\ EventsOf({"write", "reuse"}) # {}) =>
        /\ last.outcome = "ok" /\ last.err = "none"
        /\ last.saved
        /\ cfg.CurrentTheme = last.info.theme
        /\ cfg.CurrentTemplate =
              Base(IF last.cmd = "cycle" THEN last.info.next ELSE last.info.template)
        /\ \E i \in EventsOf({"warn wallpaper"}) : cfg.LastOutputPath = last.events[i].path

\* a switch to gruvbox whose setter failed, after a generate had recorded nord
C19_Witness ==
    /\ last.cmd = "switch-current"
    /\ "setter" \in last.faults
    /\ EventsOf({"warn wallpaper"}) # {}
    /\ last.outcome = "ok" /\ last.saved
    /\ last.before.CurrentTheme = "nord"
    /\ cfg.CurrentTheme = "gruvbox"

\* C20 as stated: the resolution is the --resolution argument when given,
\* otherwise that of the display, and when the probe cannot determine one the
\* configured default, with a warning.
C20_AsStated ==
    (last.n > 0 /\ last.info.res # NoResolution /\ last.info.res.err = "none") =>
        IF last.args.resolution # <<>>
        THEN /\ last.info.res.Width = last.args.resolution[1].val
             /\ last.info.res.Height = last.args.resolution[2].val
        ELSE IF last.faults \cap {"probe", "os"} = {}
        THEN /\ last.info.res.Width = Display.Width
             /\ last.info.res.Height = Display.Height
        ELSE /\ last.info.res.Width = last.before.DefaultWidth
             /\ last.info.res.Height = last.before.DefaultHeight
             /\ EventsOf({"warn resolution"}) # {}

\* the positions of preferred_templates whose entry, written with or without
\* the .svg extension, is the template the last invocation used
PreferredPositions ==
    {i \in DOMAIN cfg.PreferredTemplates :
        ResolveTemplate(cfg, cfg.PreferredTemplates[i]) = last.info.template}

\* a successful generate or switch-current that used an entry of
\* preferred_templates is followed by a successful cycle
CycleAfterGeneration ==
    /\ last.cmd \in {"generate", "switch-current"} /\ last.outcome = "ok" /\ last.saved
    /\ \A i \in DOMAIN cfg.PreferredTemplates : cfg.PreferredTemplates[i] # All
    /\ PreferredPositions # {}
    /\ last'.n = last.n + 1 /\ last'.cmd = "cycle" /\ last'.outcome = "ok"

\* C27 as stated: when generate or switch-current has succeeded with a
\* template that is an entry of preferred_templates, the next cycle selects
\* the entry that follows it in the list, the first after the last.
C27_AsStated ==
    [][CycleAfterGeneration =>
          \E i \in PreferredPositions :
              last'.info.next =
                  cfg.PreferredTemplates[(i % Len(cfg.PreferredTemplates)) + 1]]_vars

\* C28 as stated: with a template list of N pairwise distinct entries, N
\* successful cycle invocations in a row, nothing else in between, select
\* every entry of the list exactly once, whatever current_template was before.
\* (last.picks: the templates the successful cycle invocations since the last
\* other invocation selected, each of them saved to config.toml.)
C28_AsStated ==
    LET templates == getTemplatesToCycle(cfg).templates
        N         == Len(templates)
    IN  (/\ N > 0 /\ Len(last.picks) = N
         /\ \A i \in 1..N : \A j \in 1..N : i # j => templates[i] # templates[j])
        => /\ Range(last.picks) = Range(templates)
           /\ \A i \in 1..N : \A j \in 1..N : i # j => last.picks[i] # last.picks[j]

\* C9: whenever an invocation saves the session state, last_output_path
\* refers to a file that exists at that moment.
C9_AsStated == last.saved => Exists(files, cfg.LastOutputPath)

(* Specifications *)

(* convert-template --from-theme: the reverse colour mapping *)

\* A document is a sequence of tokens [t, hex]: the opening of a fill
\* attribute, the closing quote, the opening of a style declaration, a colour
\* literal "#" with its hex digits as written, or a placeholder.
Tok(t, hex) == [t |-> t, hex |-> hex]

AttrOpen == Tok("fill=\"", <<>>)
Quote == Tok("\"", <<>>)
StyleOpen == Tok("fill:", <<>>)
StopOpen == Tok("stop-color=\"", <<>>)
Colour(hex) == Tok("#", hex)
Hole(key) == Tok("{{" \o key \o "}}", <<>>)

\* strings.ToLower on one hex digit
LowerDigit(d) ==
    CASE d = "A" -> "a" [] d = "B" -> "b" [] d = "C" -> "c"
      [] d = "D" -> "d" [] d = "E" -> "e" [] d = "F" -> "f" [] OTHER -> d

\* strings.ToUpper, strings.ToLower on a colour literal
ToUpper(hex) == [i \in DOMAIN hex |-> UpperDigit(hex[i])]
ToLower(hex) == [i \in DOMAIN hex |-> LowerDigit(hex[i])]

\* normalizeColor: upper case, and #RGB becomes #RRGGBB
normalizeColor(hex) ==
    LET color == ToUpper(hex)
    IN  IF Len(color) = 3
        THEN <<color[1], color[1], color[2], color[2], color[3], color[3]>>
        ELSE color

\* can the pattern #[0-9A-Fa-f]{6}|#[0-9A-Fa-f]{3} match the token
IsColour(tok) == tok.t = "#" /\ Len(tok.hex) \in {3, 6}

\* extractColors: the colours of fill="#..." attributes and of fill: #...
\* declarations, normalized; the order of the result is that of a map range
extractColors(svgContent) ==
    {normalizeColor(svgContent[i + 1].hex) :
        i \in {j \in 1..(Len(svgContent) - 2) :
                  /\ svgContent[j] = AttrOpen
                  /\ IsColour(svgContent[j + 1])
                  /\ svgContent[j + 2] = Quote}}
    \cup
    {normalizeColor(svgContent[i + 1].hex) :
        i \in {j \in 1..(Len(svgContent) - 1) :
                  svgContent[j] = StyleOpen /\ IsColour(svgContent[j + 1])}}

\* createThemeMapping: reverseMapping[strings.ToUpper(colorValue)] = placeholder
\* for every entry of the palette; of two keys with one value the one the
\* range visits last stays
ReverseMappings(palette) ==
    LET values    == {ToUpper(palette[k]) : k \in DOMAIN palette}
        KeysOf(v) == {k \in DOMAIN palette : ToUpper(palette[k]) = v}
        shared    == {v \in values : Cardinality(KeysOf(v)) > 1}
        lasts     == {l \in [shared -> DOMAIN palette] : \A v \in shared : l[v] \in KeysOf(v)}
    IN  {[v \in values |-> IF v \in shared THEN l[v] ELSE CHOOSE k \in KeysOf(v) : TRUE] :
            l \in lasts}

\* createThemeMapping: the colours of the document the theme has
ThemeMapping(colors, reverseMapping) ==
    [c \in colors \cap DOMAIN reverseMapping |-> reverseMapping[c]]

\* runConvertTemplate, "Apply mappings": for every pair, in the order of the
\* range, the upper-case and then the lower-case spelling is replaced
RECURSIVE ApplyMappings(_, _, _)
ApplyMappings(svgContent, mapping, order) ==
    IF order = <<>> THEN svgContent
    ELSE LET color       == Head(order)
             placeholder == <<Hole(mapping[color])>>
             upper       == ReplaceAll(svgContent, <<Colour(ToUpper(color))>>, placeholder)
             lower       == ReplaceAll(upper, <<Colour(ToLower(color))>>, placeholder)
         IN  ApplyMappings(lower, mapping, Tail(order))

\* the most colour occurrences of a document
MaxSwatches == 2

\* the ways the documents write their colours: #AABBCC in upper, lower and
\* mixed case and as #ABC and #abc, #112233 and a colour no theme has
Spellings ==
    {<<"A", "A", "B", "B", "C", "C">>, <<"a", "a", "b", "b", "c", "c">>,
     <<"A", "a", "B", "b", "C", "c">>, <<"A", "B", "C">>, <<"a", "b", "c">>,
     <<"1", "1", "2", "2", "3", "3">>, <<"D", "D", "E", "E", "F", "F">>}

\* one colour occurrence: in a fill attribute, in a style declaration, or in
\* an attribute that extractColors does not look at
Swatches ==
    {<<AttrOpen, Colour(h), Quote>> : h \in Spellings}
    \cup {<<StyleOpen, Colour(h)>> : h \in Spellings}
    \cup {<<StopOpen, Colour(h), Quote>> : h \in Spellings}

ConvertDocs == {Flatten(ss) : ss \in SeqsUpTo(Swatches, MaxSwatches)}

HexOrder == <<"0", "1", "2", "3", "4", "5", "6", "7", "8", "9", "A", "B", "C", "D", "E", "F">>

\* the palettes of the themes: base00 is #AABBCC in either case, base01 is
\* #112233 or the colour of base00, the others are colours of no document
ConvertPalettes ==
    {[k \in Required16 |->
        IF k = "base00" THEN v00
        ELSE IF k = "base01" THEN v01
        ELSE <<"F", "F", "0", "0", "0",
               HexOrder[CHOOSE i \in 1..16 : KeyOrder[i] = k]>>] :
        v00 \in {<<"A", "A", "B", "B", "C", "C">>, <<"a", "a", "b", "b", "c", "c">>},
        v01 \in {<<"1", "1", "2", "2", "3", "3">>, <<"A", "A", "B", "B", "C", "C">>}}

NotConverted == [done |-> FALSE, text |-> <<>>, colors |-> <<>>, mapping |-> <<>>]

ConvertInit ==
    /\ conv \in {[doc |-> d, palette |-> p, out |-> NotConverted] :
                    d \in ConvertDocs, p \in ConvertPalettes}

ConvertIdle == conv = [doc |-> <<>>, palette |-> <<>>, out |-> NotConverted]

\* runConvertTemplate with --from-theme: the slice extractColors returns (the
\* keys of colorSet in the order of a map range), the mapping
\* createThemeMapping makes of it, and the template that is written
Convert ==
    /\ ~conv.out.done
    /\ \E colors \in Orderings(extractColors(conv.doc)) :
       \E reverseMapping \in ReverseMappings(conv.palette) :
          LET mapping == ThemeMapping(Range(colors), reverseMapping)
          IN  \E order \in Orderings(DOMAIN mapping) :
                conv' = [conv EXCEPT
                    !.out = [done |-> TRUE, colors |-> colors, mapping |-> mapping,
                             text |-> ApplyMappings(conv.doc, mapping, order)]]

\* the colours that are values of the palette, in canonical form
PaletteValues == {normalizeColor(conv.palette[k]) : k \in DOMAIN conv.palette}

\* C15 as stated: the colours extracted from the rewritten document are
\* colours extracted from the document that are not values of the palette.
C15_AsStated ==
    conv.out.done =>
        extractColors(conv.out.text) \subseteq (extractColors(conv.doc) \ PaletteValues)

\* the colours of the occurrences extractColors matches, in canonical form,
\* each once, in the order of their first occurrence in the document
RECURSIVE ColoursInOrder(_, _, _)
ColoursInOrder(svgContent, seen, i) ==
    IF i + 1 > Len(svgContent) THEN seen
    ELSE IF /\ IsColour(svgContent[i + 1])
            /\ \/ svgContent[i] = StyleOpen
               \/ /\ svgContent[i] = AttrOpen
                  /\ i + 2 <= Len(svgContent) /\ svgContent[i + 2] = Quote
         THEN LET color == normalizeColor(svgContent[i + 1].hex)
              IN  ColoursInOrder(svgContent,
                      IF color \in Range(seen) THEN seen ELSE Append(seen, color), i + 2)
         ELSE ColoursInOrder(svgContent, seen, i + 1)

\* C24 as stated: extract_colors returns each colour of the document exactly
\* once, as six upper-case hex digits (#RGB with each digit doubled), in the
\* order of first occurrence in the document, so one document has one result.
C24_AsStated ==
    conv.out.done => conv.out.colors = ColoursInOrder(conv.doc, <<>>, 1)

\* the first key, in the order base00, base01, ..., whose value is the colour
FirstKeyOf(palette, color) ==
    KeyOrder[CHOOSE i \in 1..Len(KeyOrder) :
        /\ KeyOrder[i] \in DOMAIN palette /\ ToUpper(palette[KeyOrder[i]]) = color
        /\ \A j \in 1..(i - 1) :
              KeyOrder[j] \in DOMAIN palette => ToUpper(palette[KeyOrder[j]]) # color]

\* C25 as stated: in the mapping made from a palette, an extracted colour that
\* is the value of two or more keys is mapped to the one that comes first in
\* the order base00, base01, ..., in every run.
C25_AsStated ==
    conv.out.done =>
        \A color \in DOMAIN conv.out.mapping :
            conv.out.mapping[color] = FirstKeyOf(conv.palette, color)

(* extract-colors: a palette from the swatches of a document *)

\* the colour literals of the tokens after an opening, in the order of the
\* document, upper-cased: fillRegex fill="(#[0-9A-Fa-f]{6})" when quoted,
\* cssRegex fill:\s*(#[0-9A-Fa-f]{6}) when not
RECURSIVE FindFills(_, _, _, _)
FindFills(content, opening, quoted, i) ==
    IF i + 1 > Len(content) THEN <<>>
    ELSE IF /\ content[i] = opening
            /\ content[i + 1].t = "#" /\ Len(content[i + 1].hex) = 6
            /\ (quoted => (i + 2 <= Len(content) /\ content[i + 2] = Quote))
         THEN <<ToUpper(content[i + 1].hex)>> \o FindFills(content, opening, quoted, i + 2)
         ELSE FindFills(content, opening, quoted, i + 1)

\* the loop over the matches: a colour not seen before is appended
RECURSIVE AppendUnseen(_, _)
AppendUnseen(colors, matches) ==
    IF matches = <<>> THEN colors
    ELSE AppendUnseen(IF Head(matches) \in Range(colors) THEN colors
                      ELSE Append(colors, Head(matches)),
                      Tail(matches))

\* extractColorsFromSVG: baseNames
baseNames == SubSeq(KeyOrder, 1, 16)

\* extractColorsFromSVG: the fill attributes, then the style declarations;
\* sixteen colours are mapped to baseNames in that order, any other number
\* is an error
extractColorsFromSVG(content) ==
    LET fills  == AppendUnseen(<<>>, FindFills(content, AttrOpen, TRUE, 1))
        colors == AppendUnseen(fills, FindFills(content, StyleOpen, FALSE, 1))
    IN  IF Len(colors) = 16
        THEN [err |-> "none", found |-> colors,
              colors |-> [k \in Range(baseNames) |->
                            colors[CHOOSE i \in 1..16 : baseNames[i] = k]]]
        ELSE [err |-> "SynthesisError", found |-> colors, colors |-> <<>>]

\* a runExtractColors without the check of the number of colours: the first
\* sixteen baseNames that have a colour are saved
ExtractSavesAnyCount(disk, content, themeName) ==
    LET fills  == AppendUnseen(<<>>, FindFills(content, AttrOpen, TRUE, 1))
        colors == AppendUnseen(fills, FindFills(content, StyleOpen, FALSE, 1))
        keys   == {baseNames[i] : i \in 1..(IF Len(colors) < 16 THEN Len(colors) ELSE 16)}
        palette == [k \in keys |-> colors[CHOOSE i \in 1..16 : baseNames[i] = k]]
    IN  [err |-> "none", found |-> colors,
         disk |-> SaveTheme(disk, Theme("base16", themeName, "extracted", "dark", palette))]

\* runExtractColors: an error of the extraction ends the command; otherwise
\* the theme is saved by a new ThemeManager
runExtractColors(disk, content, themeName) ==
    LET x == extractColorsFromSVG(content)
    IN  IF x.err # "none" THEN [err |-> x.err, found |-> x.found, disk |-> disk]
        ELSE IF Cardinality(DOMAIN x.colors) # 16
        THEN [err |-> "SynthesisError", found |-> x.found, disk |-> disk]
        ELSE [err |-> "none", found |-> x.found,
              disk |-> SaveTheme(disk, Theme("base16", themeName, "extracted", "dark",
                                             x.colors))]

\* the most swatches of a document that are style declarations
MaxStyled == 1

\* the colour of the i-th swatch
SwatchColour(i) ==
    IF i <= 16 THEN <<"0", "0", "0", "0", "A", HexOrder[i]>>
    ELSE <<"0", "0", "0", "0", "B", "0">>

\* a document of n swatches of different colours, those of styled written as
\* style declarations and the others as fill attributes; when again is not 0
\* the colour of that swatch occurs once more at the end, in lower case
SwatchDoc(n, styled, again) ==
    Flatten([i \in 1..n |->
                IF i \in styled THEN <<StyleOpen, Colour(SwatchColour(i))>>
                ELSE <<AttrOpen, Colour(SwatchColour(i)), Quote>>])
    \o (IF again = 0 THEN <<>>
        ELSE <<AttrOpen, Colour(ToLower(SwatchColour(again))), Quote>>)

ExtractDocs ==
    {SwatchDoc(n, styled, again) :
        n \in {15, 16, 17},
        styled \in {st \in SUBSET {1, 2, 15, 16} : Cardinality(st) <= MaxStyled},
        again \in {0, 1, 15}}

NotExtracted == [done |-> FALSE, err |-> "none", found |-> <<>>]

ExtractInit ==
    /\ extr \in {[doc |-> d, name |-> n, before |-> [dirs |-> {}, denied |-> {}, files |-> {}],
                 out |-> NotExtracted] : d \in ExtractDocs, n \in {"nord", "mytheme"}}
    /\ themeFiles \in SaveDisks
    /\ themes = NewThemeManager

ExtractIdle == extr = [doc |-> <<>>, name |-> "", before |-> [dirs |-> {}, denied |-> {}, files |-> {}],
                       out |-> NotExtracted]

\* ppr extract-colors <svg-file> <theme-name>
Extract ==
    /\ ~extr.out.done
    /\ LET r == runExtractColors(themeFiles, extr.doc, extr.name)
       IN  /\ extr' = [extr EXCEPT !.before = themeFiles,
                                   !.out = [done |-> TRUE, err |-> r.err, found |-> r.found]]
           /\ themeFiles' = r.disk
    /\ UNCHANGED themes

\* the distinct colours of the document in the order of their first
\* occurrence, fill attributes and style declarations together
RECURSIVE FirstOccurrences(_, _, _)
FirstOccurrences(content, seen, i) ==
    IF i + 1 > Len(content) THEN seen
    ELSE IF content[i] \in {AttrOpen, StyleOpen} /\ content[i + 1].t = "#"
         THEN FirstOccurrences(content,
                  IF ToUpper(content[i + 1].hex) \in Range(seen) THEN seen
                  ELSE Append(seen, ToUpper(content[i + 1].hex)),
                  i + 2)
         ELSE FirstOccurrences(content, seen, i + 1)

\* the palette file the command wrote
ExtractedFiles ==
    {f \in themeFiles.files : f.dir = "base16" /\ f.name = extr.name /\ f.doc.Author = "extracted"}

\* C16 as stated: a document of exactly sixteen distinct colours (and no
\* label) gives the palette that maps base00..base0F to the colours in the
\* order of their first occurrence in the document.
C16_AsStated ==
    (extr.out.done /\ Len(FirstOccurrences(extr.doc, <<>>, 1)) = 16) =>
        /\ extr.out.err = "none"
        /\ \E f \in ExtractedFiles :
              \A i \in 1..16 :
                  f.doc.Palette[KeyOrder[i]] = FirstOccurrences(extr.doc, <<>>, 1)[i]

\* C17: when the extraction yields a number of colours other than sixteen,
\* extract-colors fails with SynthesisError, writes no palette file and leaves
\* the themes directory as it was.
C17_WrongCountWritesNothing ==
    (extr.out.done /\ Len(FirstOccurrences(extr.doc, <<>>, 1)) # 16) =>
        /\ extr.out.err = "SynthesisError"
        /\ themeFiles = extr.before

\* a document of fifteen colours was refused and the themes directory, which
\* has a palette file, is as before
C17_Witness ==
    /\ extr.out.done /\ Len(extr.out.found) = 15
    /\ extr.out.err = "SynthesisError"
    /\ themeFiles.files # {} /\ themeFiles = extr.before

(* extract-colors: a palette from the labelled swatches of a document *)

\* A document is its groups, each with the fill of its first rectangle that
\* has a usable one ("" when none has) and the text of its label ("" when it
\* has no text with "base"), and the pairs of a label and the first colour
\* literal after it that the text of the document has.

\* extractBaseLabel: the first match of base[0-9A-F][0-9A-F] in the text
extractBaseLabel(text) == IF text \in UpperKeys THEN text ELSE ""

\* the loop over doc.Groups: colors[baseLabel] = fillColor for every group
\* that has both, a later group of a label replacing an earlier one
GroupColors(groups) ==
    LET both == {i \in DOMAIN groups :
                    groups[i].fill # <<>> /\ extractBaseLabel(groups[i].label) # ""}
    IN  [k \in {extractBaseLabel(groups[i].label) : i \in both} |->
            groups[CHOOSE i \in both :
                      /\ extractBaseLabel(groups[i].label) = k
                      /\ \A j \in both : extractBaseLabel(groups[j].label) = k => j <= i].fill]

\* extractColorsFromText: colors[baseLabel] = "#" + strings.ToUpper(hex) for
\* every match of (base[0-9A-F][0-9A-F])[^#]*#([0-9A-Fa-f]{6})
extractColorsFromText(pairs) ==
    LET hits == {i \in DOMAIN pairs : pairs[i].label \in UpperKeys /\ Len(pairs[i].hex) = 6}
    IN  [k \in {pairs[i].label : i \in hits} |->
            ToUpper(pairs[CHOOSE i \in hits :
                      pairs[i].label = k /\ \A j \in hits : pairs[j].label = k => j <= i].hex)]

\* extractColorsFromSVG of cmd/extract-colors.go: the labelled groups, and
\* the labels of the text when no group gave a colour
LabelledColors(doc) ==
    LET colors == GroupColors(doc.groups)
    IN  IF DOMAIN colors = {} THEN extractColorsFromText(doc.text) ELSE colors

\* runExtractColors of cmd/extract-colors.go: sixteen colours are saved as a
\* base16 theme by a new ThemeManager, any other number is an error
runExtractLabelled(disk, doc, themeName) ==
    LET colors == LabelledColors(doc)
    IN  IF Cardinality(DOMAIN colors) # 16
        THEN [err |-> "SynthesisError", found |-> <<>>, disk |-> disk]
        ELSE [err |-> "none", found |-> <<>>,
              disk |-> SaveTheme(disk, Theme("base16", themeName, "extracted", "dark", colors))]

\* the labels of the swatches of a document: base00..base0F, one missing,
\* one more, base10 in the place of base0F, base0f in the place of base0F,
\* and base00 a second time
LabelLists ==
    {baseNames, SubSeq(baseNames, 1, 15), Append(baseNames, "base10"),
     Append(SubSeq(baseNames, 1, 15), "base10"), Append(SubSeq(baseNames, 1, 15), "base0f"),
     Append(baseNames, "base00")}

\* the documents: the swatches as labelled groups, or as labels in the text
LabelledDocs ==
    {[groups |-> [i \in DOMAIN l |-> [fill |-> SwatchColour(i), label |-> l[i]]],
      text   |-> <<>>] : l \in LabelLists}
    \cup
    {[groups |-> <<>>,
      text   |-> [i \in DOMAIN l |-> [label |-> l[i], hex |-> ToLower(SwatchColour(i))]]] :
        l \in LabelLists}

LabelledInit ==
    /\ extr \in {[doc |-> d, name |-> n, before |-> [dirs |-> {}, denied |-> {}, files |-> {}],
                 out |-> NotExtracted] : d \in LabelledDocs, n \in {"nord", "mytheme"}}
    /\ themeFiles \in SaveDisks
    /\ themes = NewThemeManager

\* ppr extract-colors <svg-file> <theme-name>, before the store is loaded
ExtractLabelled ==
    /\ ~extr.out.done
    /\ ~themes.loaded
    /\ LET r == runExtractLabelled(themeFiles, extr.doc, extr.name)
       IN  /\ extr' = [extr EXCEPT !.before = themeFiles,
                                   !.out = [done |-> TRUE, err |-> r.err, found |-> r.found]]
           /\ themeFiles' = r.disk
    /\ UNCHANGED themes

\* C30 as stated: every palette that extract-colors saves is a valid base16
\* palette with exactly the keys base00..base0F, so a load of the store
\* indexes it under the name that was given and get(name) returns it.
C30_AsStated ==
    (extr.out.done /\ extr.out.err = "none" /\ themes.loaded) =>
        /\ themes.err = "none"
        /\ GetTheme(themes.index, extr.name) = [found |-> TRUE, key |-> extr.name]
        /\ LET Q == themes.index[extr.name]
           IN  /\ Q.System = "base16" /\ Q.Author = "extracted"
               /\ DOMAIN Q.Palette = Range(baseNames)

(* SVGToPNG: the size of the scaled image *)

\* float64: the bits of the significand
Precision == 53

RECURSIVE Pow2(_)
Pow2(k) == IF k = 0 THEN 1 ELSE 2 * Pow2(k - 1)

\* A float64 greater than 0 is a record [e, m]: m is the significand, Precision
\* bits with the most significant one first and equal to 1, and e is the
\* exponent of that bit, so that the value is the sum of m[i] * 2^(e - i + 1).

\* the four bits of v < 16
Nibble(v) == <<(v \div 8) % 2, (v \div 4) % 2, (v \div 2) % 2, v % 2>>

\* n more bits of the quotient of r / b, r < b, and the remainder; long
\* division, four bits at a step while four are left (b is below 2^27)
RECURSIVE DivBits(_, _, _)
DivBits(r, b, n) ==
    IF n = 0 THEN [bits |-> <<>>, rem |-> r]
    ELSE IF n >= 4
         THEN LET rest == DivBits((16 * r) % b, b, n - 4)
              IN  [bits |-> Nibble((16 * r) \div b) \o rest.bits, rem |-> rest.rem]
         ELSE LET rest == DivBits((2 * r) % b, b, n - 1)
              IN  [bits |-> <<(2 * r) \div b>> \o rest.bits, rem |-> rest.rem]

\* one more in the last place: the last 0 becomes 1 and the 1s after it 0
Increment(bits) ==
    IF \A i \in DOMAIN bits : bits[i] = 1
    THEN [bits |-> [i \in DOMAIN bits |-> 0], carry |-> 1]
    ELSE LET k == CHOOSE i \in DOMAIN bits :
                      bits[i] = 0 /\ \A j \in (i + 1)..Len(bits) : bits[j] = 1
         IN  [bits  |-> [i \in DOMAIN bits |-> IF i < k THEN bits[i] ELSE IF i = k THEN 1 ELSE 0],
              carry |-> 0]

\* rounding up: the significand one more in the last place
RoundUp(e, m) ==
    LET r == Increment(m)
    IN  IF r.carry = 1 THEN [e |-> e + 1, m |-> <<1>> \o SubSeq(r.bits, 1, Precision - 1)]
        ELSE [e |-> e, m |-> r.bits]

\* float64(a) / float64(b) for integers a, b > 0, rounded to nearest, ties to even
Divide(a, b) ==
    LET e   == IF a >= b
               THEN CHOOSE k \in 0..30 : b * Pow2(k) <= a /\ a < b * Pow2(k + 1)
               ELSE 0 - (CHOOSE k \in 1..30 : a * Pow2(k) >= b /\ a * Pow2(k - 1) < b)
        num == IF e < 0 THEN a * Pow2(0 - e) ELSE a
        den == IF e > 0 THEN b * Pow2(e) ELSE b
        d   == DivBits(num - den, den, Precision - 1)
        m   == <<1>> \o d.bits
    IN  IF 2 * d.rem > den \/ (2 * d.rem = den /\ m[Precision] = 1)
        THEN RoundUp(e, m)
        ELSE [e |-> e, m |-> m]

\* the bits of an integer, the most significant first
RECURSIVE BitsOf(_)
BitsOf(c) == IF c = 0 THEN <<>> ELSE BitsOf(c \div 2) \o <<c % 2>>

\* the bits of bits * n + carry; long multiplication from the last bit, four
\* bits at a step while four are left
RECURSIVE MulBits(_, _, _)
MulBits(bits, n, carry) ==
    IF bits = <<>> THEN BitsOf(carry)
    ELSE IF Len(bits) >= 4
         THEN LET l == Len(bits)
                  t == (8 * bits[l - 3] + 4 * bits[l - 2] + 2 * bits[l - 1] + bits[l]) * n + carry
              IN  MulBits(SubSeq(bits, 1, l - 4), n, t \div 16) \o Nibble(t % 16)
         ELSE LET t == bits[Len(bits)] * n + carry
              IN  MulBits(SubSeq(bits, 1, Len(bits) - 1), n, t \div 2) \o <<t % 2>>

\* float64(n) * f for an integer n > 0, rounded to nearest, ties to even
Multiply(n, f) ==
    LET product == MulBits(f.m, n, 0)
        e       == f.e + Len(product) - Precision
        kept    == SubSeq(product, 1, Precision)
    IN  IF Len(product) = Precision THEN [e |-> e, m |-> product]
        ELSE IF /\ product[Precision + 1] = 1
                /\ \/ kept[Precision] = 1
                   \/ \E i \in (Precision + 2)..Len(product) : product[i] = 1
             THEN RoundUp(e, kept)
             ELSE [e |-> e, m |-> kept]

RECURSIVE ValueOf(_)
ValueOf(bits) ==
    IF bits = <<>> THEN 0
    ELSE 2 * ValueOf(SubSeq(bits, 1, Len(bits) - 1)) + bits[Len(bits)]

\* int(f): the fraction is dropped
Truncate(f) == IF f.e < 0 THEN 0 ELSE ValueOf(SubSeq(f.m, 1, f.e + 1))

\* f > g
Greater(f, g) ==
    \/ f.e > g.e
    \/ /\ f.e = g.e
       /\ \E i \in 1..Precision : f.m[i] > g.m[i] /\ \A j \in 1..(i - 1) : f.m[j] = g.m[j]

\* SVGToPNG, "Calculate scaling to maintain aspect ratio" and "Calculate
\* scaled dimensions"
ScaledSize(width, height, svgWidth, svgHeight) ==
    LET scaleX == Divide(width, svgWidth)
        scaleY == Divide(height, svgHeight)
        scale  == IF Greater(scaleY, scaleX) THEN scaleY ELSE scaleX
    IN  [scaledWidth  |-> Truncate(Multiply(svgWidth, scale)),
         scaledHeight |-> Truncate(Multiply(svgHeight, scale))]

\* the largest width and height of a template
MaxSource == 12

\* the sizes asked for
Targets == {<<1920, 1080>>, <<1080, 1920>>, <<300, 200>>, <<7, 5>>, <<1, 1>>}

NotScaled == [done |-> FALSE, scaledWidth |-> 0, scaledHeight |-> 0, offsetX |-> 0, offsetY |-> 0]

ScaleInit ==
    img \in {[width |-> t[1], height |-> t[2], svgWidth |-> w, svgHeight |-> h,
              out |-> NotScaled] : t \in Targets, w \in 1..MaxSource, h \in 1..MaxSource}

ScaleIdle == img = [width |-> 0, height |-> 0, svgWidth |-> 0, svgHeight |-> 0, out |-> NotScaled]

\* (scaled - target) / 2 on Go's int: the quotient is truncated toward zero
CropOffset(scaled, target) ==
    IF scaled >= target THEN (scaled - target) \div 2 ELSE -((target - scaled) \div 2)

\* SVGToPNG from the sizes to the crop: the scaled image and the offsets of
\* the window that is copied into the final image
Scale ==
    /\ ~img.out.done
    /\ LET z == ScaledSize(img.width, img.height, img.svgWidth, img.svgHeight)
       IN  img' = [img EXCEPT !.out = [done |-> TRUE, scaledWidth |-> z.scaledWidth,
                                       scaledHeight |-> z.scaledHeight,
                                       offsetX |-> CropOffset(z.scaledWidth, img.width),
                                       offsetY |-> CropOffset(z.scaledHeight, img.height)]]

\* C18 as stated: the scaled size equals the target on one axis and is at
\* least the target on the other.
C18_AsStated ==
    img.out.done =>
        \/ img.out.scaledWidth = img.width /\ img.out.scaledHeight >= img.height
        \/ img.out.scaledHeight = img.height /\ img.out.scaledWidth >= img.width

\* C29 as stated: the centred crop window lies inside the scaled image: both
\* offsets are non-negative and offset + target <= scaled on each axis, so
\* every pixel of the final image is copied from the scaled image.
C29_AsStated ==
    img.out.done =>
        /\ img.out.offsetX >= 0 /\ img.out.offsetX + img.width <= img.out.scaledWidth
        /\ img.out.offsetY >= 0 /\ img.out.offsetY + img.height <= img.out.scaledHeight

(* SVGToPNG: the size of the document *)

\* SVGToPNG up to the size it reads: without a width and a height it fails
\* before anything is drawn or created, otherwise the image is written
SVGToPNG(svgContent) ==
    LET d == extractSVGDimensions(svgContent)
    IN  IF d.err
        THEN [done |-> TRUE, err |-> "MissingDimensions", svgWidth |-> 0, svgHeight |-> 0,
              written |-> FALSE]
        ELSE [done |-> TRUE, err |-> "none", svgWidth |-> d.Width, svgHeight |-> d.Height,
              written |-> TRUE]

\* the attributes an element can have: a width and a height or not
AttrLists ==
    {w \o h : w \in {<<>>} \cup {<<Attr("width", v)>> : v \in SourceSizes},
              h \in {<<>>} \cup {<<Attr("height", v)>> : v \in SourceSizes}}

\* documents: the root element with its attributes, and no child or a
\* rectangle with its attributes
SizedDocs ==
    {<<"<svg">> \o r \o <<">">> \o c \o <<"</svg>">> :
        r \in AttrLists,
        c \in {<<>>} \cup {<<"<rect">> \o a \o <<"/>">> : a \in AttrLists}}

NotMeasured == [done |-> FALSE, err |-> "none", svgWidth |-> 0, svgHeight |-> 0, written |-> FALSE]

MeasureInit == dims \in {[doc |-> d, out |-> NotMeasured] : d \in SizedDocs}

MeasureIdle == dims = [doc |-> <<>>, out |-> NotMeasured]

\* one call of SVGToPNG
Measure ==
    /\ ~dims.out.done
    /\ dims' = [dims EXCEPT !.out = SVGToPNG(dims.doc)]

\* the attributes of the root element: the tokens between <svg and the first >
RootAttrs ==
    LET close == CHOOSE i \in DOMAIN dims.doc :
                    dims.doc[i] = ">" /\ \A j \in 1..(i - 1) : dims.doc[j] # ">"
    IN  {dims.doc[i] : i \in 2..(close - 1)}

\* the width and the height the root element declares
RootWidths == {v \in SourceSizes : Attr("width", v) \in RootAttrs}
RootHeights == {v \in SourceSizes : Attr("height", v) \in RootAttrs}

\* C26 as stated: render takes the source width and height from the width
\* and height attributes of the root element, and fails with
\* MissingDimensions, writing no file, when the root element does not declare both.
C26_AsStated ==
    dims.out.done =>
        IF RootWidths # {} /\ RootHeights # {}
        THEN /\ dims.out.err = "none"
             /\ dims.out.svgWidth \in RootWidths
             /\ dims.out.svgHeight \in RootHeights
        ELSE dims.out.err = "MissingDimensions" /\ ~dims.out.written

MeasureNext == Measure /\ UNCHANGED <<bindVars, cycleVars, cmdVars, storeVars, conv, extr, img>>

InitMeasure ==
    BindIdle /\ CycleIdle /\ CmdIdle /\ StoreIdle /\ ConvertIdle /\ ExtractIdle /\ ScaleIdle /\ MeasureInit

SpecMeasure == InitMeasure /\ [][MeasureNext]_vars

ToolIdle == ConvertIdle /\ ExtractIdle /\ ScaleIdle /\ MeasureIdle

ConvertNext == Convert /\ UNCHANGED <<bindVars, cycleVars, cmdVars, storeVars, extr, img, dims>>

InitConvert ==
    BindIdle /\ CycleIdle /\ CmdIdle /\ StoreIdle /\ ConvertInit /\ ExtractIdle /\ ScaleIdle /\ MeasureIdle

SpecConvert == InitConvert /\ [][ConvertNext]_vars

ExtractNext == Extract /\ UNCHANGED <<bindVars, cycleVars, cmdVars, conv, img, dims>>

InitExtract ==
    BindIdle /\ CycleIdle /\ CmdIdle /\ ConvertIdle /\ ExtractInit /\ ScaleIdle /\ MeasureIdle

SpecExtract == InitExtract /\ [][ExtractNext]_vars

ScaleNext == Scale /\ UNCHANGED <<bindVars, cycleVars, cmdVars, storeVars, conv, extr, dims>>

InitScale ==
    BindIdle /\ CycleIdle /\ CmdIdle /\ StoreIdle /\ ConvertIdle /\ ExtractIdle /\ ScaleInit /\ MeasureIdle

SpecScale == InitScale /\ [][ScaleNext]_vars

RoundsNext == CycleRound /\ UNCHANGED <<bindVars, cycleVars, storeVars, toolVars>>

InitRounds == BindIdle /\ CycleIdle /\ RoundsInit /\ StoreIdle /\ ToolIdle

SpecRounds == InitRounds /\ [][RoundsNext]_vars

LabelledNext ==
    (ExtractLabelled \/ (Load /\ UNCHANGED extr))
    /\ UNCHANGED <<bindVars, cycleVars, cmdVars, conv, img, dims>>

InitLabelled ==
    BindIdle /\ CycleIdle /\ CmdIdle /\ ConvertIdle /\ LabelledInit /\ ScaleIdle /\ MeasureIdle

SpecLabelled == InitLabelled /\ [][LabelledNext]_vars

BindNext == Bind /\ UNCHANGED <<cycleVars, cmdVars, storeVars, toolVars>>

InitBind == BindInit /\ CycleIdle /\ CmdIdle /\ StoreIdle /\ ToolIdle

SpecBind == InitBind /\ [][BindNext]_vars

CycleNext == (CycleFirst \/ CycleAgain) /\ UNCHANGED <<bindVars, cmdVars, storeVars, toolVars>>

InitCycle == BindIdle /\ CycleInit /\ CmdIdle /\ StoreIdle /\ ToolIdle

SpecCycle == InitCycle /\ [][CycleNext]_vars

StoreNext == (Load \/ Get) /\ UNCHANGED <<bindVars, cycleVars, cmdVars, toolVars>>

InitStore == BindIdle /\ CycleIdle /\ CmdIdle /\ StoreInit /\ ToolIdle

SaveNext == (Save \/ Load) /\ UNCHANGED <<bindVars, cycleVars, cmdVars, toolVars>>

InitSave == BindIdle /\ CycleIdle /\ CmdIdle /\ SaveInit /\ ToolIdle

SpecSave == InitSave /\ [][SaveNext]_vars

SpecStore == InitStore /\ [][StoreNext]_vars

Next == (Generate \/ SwitchCurrent \/ Cycle \/ Tick) /\ UNCHANGED <<bindVars, cycleVars, storeVars, toolVars>>

Init == BindIdle /\ CycleIdle /\ CmdInit /\ StoreIdle /\ ToolIdle

Spec == Init /\ [][Next]_vars

====
